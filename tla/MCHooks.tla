------------------------------- MODULE MCHooks -------------------------------
(* Instances of HookDispatcher for TLC.                                    *)
EXTENDS HookDispatcher, TLC

CONSTANTS up, down, \* kinds of events
          e1, e2,   \* their occurrences
          a, b      \* contents of hooks.json

Http(n) == [type |-> "http", maxRetries |-> n]
Other(t) == [type |-> t, maxRetries |-> 0]
Hook(kind, actions) == [event |-> kind, actions |-> actions]

\* Content a has two definitions for one kind, of which the first counts; b
\* has other actions for it, after a definition for another kind.
MCHooks == a :> <<Hook(up, <<Http(1), Other("unknown")>>), Hook(up, <<Other("file")>>)>>
        @@ b :> <<Hook(down, <<Http(-1)>>), Hook(up, <<Other("unknown"), Other("shell")>>)>>

\* A reload of another content, one refused, and the file removed.
MCEdits == <<a, b, Invalid, NoConfig>>

MCKindOf == e1 :> up @@ e2 :> down
=============================================================================
