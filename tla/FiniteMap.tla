------------------------------ MODULE FiniteMap ------------------------------
(***************************************************************************)
(* What a hash map promises its callers: a partial function from key       *)
(* contents to values, and the results of its operations.  Null is both a  *)
(* value and the answer for a key that is absent.                          *)
(***************************************************************************)
CONSTANTS Contents, Values, Null, Absent

VARIABLES
    map,    \* content -> value, Null or Absent
    result  \* what the last operation returned

mapVars == <<map, result>>

Present(c) == map[c] # Absent
Answer(c) == IF Present(c) THEN map[c] ELSE Null

Init == map = [c \in Contents |-> Absent] /\ result = Null

\* An operation may run out of memory before it adds a key, and returns Null.
Put(c, v) ==
    \/ result' = Answer(c) /\ map' = [map EXCEPT ![c] = v]
    \/ result' = Null /\ ~Present(c) /\ UNCHANGED map

Get(c) == result' = Answer(c) /\ UNCHANGED map

ContainsKey(c) == result' = Present(c) /\ UNCHANGED map

Remove(c) == result' = Answer(c) /\ map' = [map EXCEPT ![c] = Absent]

\* The key is there, with Null, while the callback computes its value.
MemoizeBegin(c) == ~Present(c) /\ UNCHANGED result /\ map' = [map EXCEPT ![c] = Null]

MemoizeEnd(c, v) == result' = v /\ map[c] = Null /\ map' = [map EXCEPT ![c] = v]

\* A visit of all entries goes on: it returns nothing and changes nothing.
Visit == result' = Null /\ UNCHANGED map

Next ==
    \/ Visit
    \/ \E c \in Contents :
        \/ Get(c) \/ ContainsKey(c) \/ Remove(c) \/ MemoizeBegin(c)
        \/ \E v \in Values \cup {Null} : Put(c, v) \/ MemoizeEnd(c, v)

Spec == Init /\ [][Next]_mapVars
=============================================================================
