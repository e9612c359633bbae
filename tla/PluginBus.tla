------------------------------- MODULE PluginBus -------------------------------
(******************************************************************************)
(* plugins.Manager, internal/plugins/plugins.go: plugins and hooks that are   *)
(* told of the events of a file service.  Emit holds the read lock while it   *)
(* calls them, and they may call the manager in turn, so that a goroutine has *)
(* a stack of calls.  The lock is Go's RWMutex: a writer that waits lets no   *)
(* further reader in, and lets in all that wait when it is done.              *)
(******************************************************************************)
EXTENDS Naturals, Sequences

CONSTANTS
  Goroutines,
  Handlers,   \* plugins and hooks; a hook is a Handler too
  Types,      \* Event.Type
  MaxCalls,   \* bound: calls of the manager, the nested ones included
  MaxDepth    \* bound: calls of one goroutine that are under way at a time

ASSUME BusAssumption ==
  MaxCalls \in Nat /\ MaxDepth \in Nat \ {0} /\ Types # {} /\ Handlers # {}

VARIABLES
  plugins,     \* Manager.plugins
  hooks,       \* Manager.hooks
  authPlugin,  \* Manager.authPlugin, a set of one or none
  stack,       \* the calls each goroutine is in, the innermost last
  calls        \* history: number of calls so far

registry == <<plugins, hooks, authPlugin>>
vars == <<registry, stack, calls>>

Reads   == {"emit", "authenticate"}
Writes  == {"register", "on", "setAuth"}
Places  == {"blocked", "plugins", "hooks", "reading", "checking",
            "want", "pending"}
Waiting == {"blocked", "want", "pending"}

(* One call: what it was called with, where it is, and for an Emit the loop   *)
(* counter, whether a handler is running, the handlers it has called, and     *)
(* those there were for each type when it was called.                         *)
Calls == [op : Reads \cup Writes, type : Types, handler : Handlers, at : Places, next : Nat,
          running : BOOLEAN, called : Seq(Handlers),
          known : [Types -> Seq(Handlers)]]

TypeOK ==
  /\ plugins \in Seq(Handlers)
  /\ hooks \in [Types -> Seq(Handlers)]
  /\ authPlugin \subseteq Handlers
  /\ stack \in [Goroutines -> Seq(Calls)]
  /\ calls \in Nat

Init ==
  /\ plugins = <<>>
  /\ hooks = [t \in Types |-> <<>>]
  /\ authPlugin = {}
  /\ stack = [g \in Goroutines |-> <<>>]
  /\ calls = 0

--------------------------------------------------------------------------------
Depth(g)     == Len(stack[g])
Active(g)    == stack[g] # <<>>
Top(g)       == stack[g][Depth(g)]
Frames(g)    == {stack[g][i] : i \in 1..Depth(g)}
AllFrames    == UNION {Frames(g) : g \in Goroutines}
At(g, p)     == Active(g) /\ Top(g).at = p
SetTop(g, f) == stack' = [stack EXCEPT ![g][Depth(g)] = f]
Push(g, f)   == stack' = [stack EXCEPT ![g] = Append(@, f)]
Pop(g)       == stack' = [stack EXCEPT ![g] = SubSeq(@, 1, Depth(g) - 1)]

(* What an event of type t is told to, in this order. *)
Audience(t) == plugins \o hooks[t]

--------------------------------------------------------------------------------
(* Deviations: plausible bugs of single operators, none of them part of Spec. *)

(* Register and On take the lock, but Emit does not. *)
NoReadersIgnored == TRUE

(* Authenticate keeps the read lock while the plugin checks. *)
ReadingChecks(f) == f.at \in {"plugins", "hooks", "reading", "checking"}

--------------------------------------------------------------------------------
(* The lock.                                                                  *)

(* Calls that hold the read lock. *)
Reading(f) == f.at \in {"plugins", "hooks", "reading"}

NoReaders   == \A f \in AllFrames : ~Reading(f)
WriterWaits == \E f \in AllFrames : f.at = "pending"

(* Where a call goes on with the read lock. *)
Entry(op) == IF op = "emit" THEN "plugins" ELSE "reading"

(* Unlock lets in every reader that waits. *)
Admit(f) == IF f.at = "blocked" THEN [f EXCEPT !.at = Entry(f.op)] ELSE f

(* A call begins in a goroutine outside the manager, in a handler that an     *)
(* Emit is calling, or in a plugin that is asked to authenticate.             *)
MayCall(g) == Active(g) => Top(g).running \/ Top(g).at = "checking"

Call(g, op, t, h, p) ==
  /\ MayCall(g)
  /\ Depth(g) < MaxDepth /\ calls < MaxCalls
  /\ Push(g, [op |-> op, type |-> t, handler |-> h, at |-> p, next |-> 1,
              running |-> FALSE, called |-> <<>>,
              known |-> [u \in Types |-> Audience(u)]])
  /\ calls' = calls + 1
  /\ UNCHANGED registry

(* RLock: waits if a writer does. *)
CallReader(g, op, t, h) ==
  Call(g, op, t, h, IF WriterWaits THEN "blocked" ELSE Entry(op))

(* Lock: one writer at a time keeps new readers out ... *)
Announce(g) ==
  /\ At(g, "want") /\ ~WriterWaits
  /\ SetTop(g, [Top(g) EXCEPT !.at = "pending"])
  /\ UNCHANGED <<registry, calls>>

(* ... waits for the readers there are, writes and unlocks. *)
Written(g) ==
  /\ At(g, "pending") /\ NoReaders
  /\ stack' = [k \in Goroutines |->
       LET s == IF k = g THEN SubSeq(stack[k], 1, Depth(k) - 1) ELSE stack[k]
       IN  [i \in 1..Len(s) |-> Admit(s[i])]]
  /\ UNCHANGED calls

--------------------------------------------------------------------------------
(* The operations of the manager.                                             *)

Register(g) ==
  /\ Written(g) /\ Top(g).op = "register"
  /\ plugins' = Append(plugins, Top(g).handler)
  /\ UNCHANGED <<hooks, authPlugin>>

On(g) ==
  /\ Written(g) /\ Top(g).op = "on"
  /\ hooks' = [hooks EXCEPT ![Top(g).type] = Append(@, Top(g).handler)]
  /\ UNCHANGED <<plugins, authPlugin>>

SetAuth(g) ==
  /\ Written(g) /\ Top(g).op = "setAuth"
  /\ authPlugin' = {Top(g).handler}
  /\ UNCHANGED <<plugins, hooks>>

(* Authenticate reads the plugin under the lock and asks it without. *)
ReadAuth(g) ==
  /\ At(g, "reading")
  /\ IF authPlugin = {} THEN Pop(g)
                        ELSE SetTop(g, [Top(g) EXCEPT !.at = "checking"])
  /\ UNCHANGED <<registry, calls>>

Checked(g) == At(g, "checking") /\ Pop(g) /\ UNCHANGED <<registry, calls>>

(* Emit: the loops over the plugins and over the hooks of the event's type. *)
Calling(g, p) == At(g, p) /\ ~Top(g).running

Invoke(g, p, s) ==
  /\ Calling(g, p) /\ Top(g).next \in 1..Len(s)
  /\ SetTop(g, [Top(g) EXCEPT !.next = @ + 1, !.running = TRUE,
                              !.called = Append(@, s[Top(g).next])])
  /\ UNCHANGED <<registry, calls>>

OnEvent(g) == Invoke(g, "plugins", plugins)
RunHook(g) == At(g, "hooks") /\ Invoke(g, "hooks", hooks[Top(g).type])

Return(g) ==
  /\ Active(g) /\ Top(g).running
  /\ SetTop(g, [Top(g) EXCEPT !.running = FALSE])
  /\ UNCHANGED <<registry, calls>>

(* A plugin is given the event itself: a Transform that changes it, instead   *)
(* of returning another one, changes which hooks are run afterwards.          *)
Transform(g, t) ==
  /\ At(g, "plugins") /\ Top(g).running
  /\ SetTop(g, [Top(g) EXCEPT !.type = t])
  /\ UNCHANGED <<registry, calls>>

StartHooks(g) ==
  /\ Calling(g, "plugins") /\ Top(g).next > Len(plugins)
  /\ SetTop(g, [Top(g) EXCEPT !.at = "hooks", !.next = 1])
  /\ UNCHANGED <<registry, calls>>

Emitted(f) == f.at = "hooks" /\ ~f.running /\ f.next > Len(hooks[f.type])

EndEmit(g) ==
  /\ Active(g) /\ Emitted(Top(g))
  /\ Pop(g)
  /\ UNCHANGED <<registry, calls>>

--------------------------------------------------------------------------------
Caller(g) ==
  \E t \in Types, h \in Handlers :
    \/ \E op \in Reads  : CallReader(g, op, t, h)
    \/ \E op \in Writes : Call(g, op, t, h, "want")

Work(g) ==
  \/ Announce(g) \/ Register(g) \/ On(g) \/ SetAuth(g)
  \/ ReadAuth(g) \/ Checked(g)
  \/ OnEvent(g) \/ RunHook(g) \/ Return(g) \/ StartHooks(g) \/ EndEmit(g)

Next ==
  \E g \in Goroutines : Caller(g) \/ Work(g) \/ \E t \in Types : Transform(g, t)

Spec == Init /\ [][Next]_vars

(* A goroutine that can run does, and every handler returns. *)
Fairness == \A g \in Goroutines : WF_vars(Work(g))

FairSpec == Spec /\ Fairness

--------------------------------------------------------------------------------
(* What a sequence holds. *)
Members(s) == {s[i] : i \in 1..Len(s)}

(* "Event-driven hooks" (docs/architecture.md:54): an Emit that ends has told *)
(* each plugin and each hook of the event's type, in the order they were      *)
(* registered, once, and has missed none that was there when it was called,   *)
(* whoever registers meanwhile.                                               *)
EventsComplete ==
  \A f \in AllFrames : Emitted(f) =>
    /\ f.called = Audience(f.type)
    /\ Members(f.known[f.type]) \subseteq Members(f.called)

(* A handler called by an Emit waits for the lock.  Then it waits forever: for *)
(* a writer that waits for that Emit, or for the Emit itself.                 *)
CalledBack ==
  \E g \in Goroutines :
    /\ Active(g) /\ Top(g).at \in Waiting
    /\ \E i \in 1..Depth(g) - 1 : stack[g][i].op = "emit"

(* Nothing else holds a call up: each returns unless a handler calls back     *)
(* to register, or to emit while somebody registers.                          *)
CallsReturn == \A g \in Goroutines : Active(g) ~> ~Active(g) \/ CalledBack

================================================================================
