------------------------------ MODULE GroupTree ------------------------------
(***************************************************************************)
(* The tables by which the threads of TREE_BARRIER and USER_BARRIER find   *)
(* their groups, and what makes them the tables of a tree: thread 0 is the *)
(* root, every other thread waits for one master at one level, and the     *)
(* group loop of a master visits exactly the threads that wait for it.     *)
(***************************************************************************)
EXTENDS Naturals

CONSTANTS
  MAX,        \* number of threads, the MAX argument of the barrier
  TOP,        \* the level above the last group level
  MASTER,     \* MASTER[l][ID]: master of the group of thread ID at level l
  STRIDE,     \* STRIDE[l]: distance of neighbouring members of a group
  SETSIZE     \* SETSIZE[l]: members a group has at most

ID    == 0 .. MAX - 1
Level == 0 .. TOP - 1
Child == ID \ {0}

(* The level at which a thread stops climbing and waits; TOP if it never   *)
(* waits.  Its master there, and its place among the master's group.       *)
WaitLevel(t) ==
  CHOOSE l \in 0 .. TOP :
    /\ \A k \in 0 .. l - 1 : MASTER[k][t] = t
    /\ l < TOP => MASTER[l][t] # t
Parent(t) == MASTER[WaitLevel(t)][t]
Place(t) ==
  CHOOSE k \in 1 .. SETSIZE[WaitLevel(t)] - 1 :
    t = Parent(t) + k * STRIDE[WaitLevel(t)]

IsTable ==
  /\ MASTER \in [Level -> [ID -> ID]]
  /\ STRIDE \in [Level -> Nat \ {0}]
  /\ SETSIZE \in [Level -> Nat \ {0}]

IsTree ==
  /\ WaitLevel(0) = TOP
  /\ \A t \in ID :
       /\ WaitLevel(t) \in 0 .. TOP
       /\ \A k \in 0 .. WaitLevel(t) - 1 : MASTER[k][t] = t
  /\ \A t \in Child :
       /\ WaitLevel(t) < TOP
       /\ Parent(t) # t
       /\ WaitLevel(t) < WaitLevel(Parent(t))
       /\ \E k \in 1 .. SETSIZE[WaitLevel(t)] - 1 :
            t = Parent(t) + k * STRIDE[WaitLevel(t)]
  /\ \A m \in ID : \A l \in 0 .. WaitLevel(m) - 1 : \A k \in 1 .. SETSIZE[l] - 1 :
       LET c == m + k * STRIDE[l] IN
         c < MAX => WaitLevel(c) = l /\ Parent(c) = m /\ Place(c) = k

=============================================================================
