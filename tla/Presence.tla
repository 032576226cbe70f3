------------------------------ MODULE Presence ------------------------------
(***************************************************************************)
(* What Server::_clients promises the handlers that look users up: which   *)
(* running connections a user name leads to.  A connection is reachable    *)
(* under one name at a time, a change of name passes through a moment      *)
(* under none, a connection is off the list before it ends, and nothing a  *)
(* connection does takes another one off; only the end of the process      *)
(* takes all of them.                                                      *)
(***************************************************************************)
CONSTANTS Conns, Users

VARIABLES
    open,   \* connections with a thread
    listed  \* pairs of a connection and the name that leads to it

\* Nobody is online when the server starts.
Init == open = {} /\ listed = {}

Accept(c) ==
    /\ c \notin open
    /\ open' = open \cup {c}
    /\ UNCHANGED listed

\* addClient for c, which no other name leads to.
Enter(c, u) ==
    /\ c \in open
    /\ \A v \in Users : <<c, v>> \in listed => v = u
    /\ listed' = listed \cup {<<c, u>>}
    /\ UNCHANGED open

\* removeClient for c: a change of name, or the end of the connection.
Withdraw(c, u) ==
    /\ <<c, u>> \in listed
    /\ listed' = listed \ {<<c, u>>}
    /\ UNCHANGED open

\* The thread returns.
Close(c) ==
    /\ c \in open
    /\ \A u \in Users : <<c, u>> \notin listed
    /\ open' = open \ {c}
    /\ UNCHANGED listed

\* The process ends.
Vanish == open' = {} /\ listed' = {}

Next ==
    \/ \E c \in Conns :
        \/ Accept(c) \/ Close(c)
        \/ \E u \in Users : Enter(c, u) \/ Withdraw(c, u)
    \/ Vanish

Spec == Init /\ [][Next]_<<open, listed>>
=============================================================================
