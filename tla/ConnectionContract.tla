-------------------------- MODULE ConnectionContract --------------------------
(***************************************************************************)
(* What the coordinator and the adapter may rely on of the connection      *)
(* manager: each of its operations is one step on a map from runners to    *)
(* streams.  A stream enters the map once; it is then replaced without a   *)
(* word, or taken out, once it has ended or missed its handshake, and      *)
(* reported exactly once, or dropped at shutdown.                          *)
(***************************************************************************)
EXTENDS Naturals

CONSTANTS
    Runners,        \* runner ids
    Conns,          \* streams
    Shutdown,       \* whether the server may shut down
    NoConn          \* nil

VARIABLES
    owner,          \* the runner of each stream
    entry,          \* runner -> the stream registered for it
    fresh,          \* streams not registered so far
    ended,          \* streams whose RPC is over
    overdue,        \* streams the timeout checker is to take out
    pending,        \* streams taken out whose callback is due
    told,           \* how often the callback has run for a stream
    down            \* runners whose entry shutdown has dropped

vars == <<owner, entry, fresh, ended, overdue, pending, told, down>>

Init ==
    /\ owner \in [Conns -> Runners]
    /\ entry = [r \in Runners |-> NoConn]
    /\ fresh = Conns
    /\ ended = {} /\ overdue = {} /\ pending = {} /\ down = {}
    /\ told = [c \in Conns |-> 0]

(* AddConnection: the stream that was there, if any, is forgotten.         *)
Register(c) ==
    /\ c \in fresh
    /\ entry' = [entry EXCEPT ![owner[c]] = c]
    /\ fresh' = fresh \ {c}
    /\ UNCHANGED <<owner, ended, overdue, pending, told, down>>

(* receiveLoop returns.                                                    *)
End(c) ==
    /\ c \notin fresh \cup ended
    /\ ended' = ended \cup {c}
    /\ UNCHANGED <<owner, entry, fresh, overdue, pending, told, down>>

(* checkInitTimeouts finds the stream in the map, uninitialized.           *)
MissHandshake(c) ==
    /\ entry[owner[c]] = c
    /\ overdue' = overdue \cup {c}
    /\ UNCHANGED <<owner, entry, fresh, ended, pending, told, down>>

TakeOut(c) ==
    /\ entry[owner[c]] = c
    /\ entry' = [entry EXCEPT ![owner[c]] = NoConn]
    /\ pending' = pending \cup {c}
    /\ UNCHANGED <<owner, fresh, ended, told, down>>

(* RemoveConnection by the stream's handler.                               *)
Leave(c) == c \in ended /\ TakeOut(c) /\ UNCHANGED overdue

(* RemoveConnection by the checker, for a stream that may be gone by then. *)
Expire(c) ==
    /\ c \in overdue
    /\ overdue' = overdue \ {c}
    /\ \/ TakeOut(c)
       \/ /\ entry[owner[c]] # c
          /\ UNCHANGED <<owner, entry, fresh, ended, pending, told, down>>

(* onDisconnect.                                                           *)
Tell(c) ==
    /\ c \in pending
    /\ pending' = pending \ {c}
    /\ told' = [told EXCEPT ![c] = @ + 1]
    /\ UNCHANGED <<owner, entry, fresh, ended, overdue, down>>

(* Close of the manager reports nothing.                                   *)
Clear(r) ==
    /\ Shutdown
    /\ r \notin down
    /\ down' = down \cup {r}
    /\ entry' = [entry EXCEPT ![r] = NoConn]
    /\ UNCHANGED <<owner, fresh, ended, overdue, pending, told>>

Next ==
    \/ \E c \in Conns :
        \/ Register(c) \/ End(c) \/ MissHandshake(c)
        \/ Leave(c) \/ Expire(c) \/ Tell(c)
    \/ \E r \in Runners : Clear(r)

Spec == Init /\ [][Next]_vars
=============================================================================
