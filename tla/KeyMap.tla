------------------------------- MODULE KeyMap -------------------------------
(***************************************************************************)
(* What a key storage of a web page promises, one step per call: a map     *)
(* whose changes are seen at once and saved a little later.  A change that *)
(* was not saved may be lost, the one before it never.                     *)
(***************************************************************************)
CONSTANTS Calls, Keys, Values, NoValue, LossAllowed

VARIABLES
    map,      \* what a get sees
    saved,    \* what survives
    asked,    \* [Calls -> the operation asked for, or <<>>]
    answer    \* [Calls -> "none", "gone", "error" or the result]
vars == <<map, saved, asked, answer>>

Operations ==
    ({"put"} \X Keys \X Values) \cup ({"get", "delete"} \X Keys \X {NoValue})

\* The effect and the result of an operation on a map.
After(op, m) ==
    CASE op[1] = "put"    -> [m EXCEPT ![op[2]] = op[3]]
      [] op[1] = "delete" -> [m EXCEPT ![op[2]] = NoValue]
      [] op[1] = "get"    -> m
Result(op, m) == IF op[1] = "get" THEN m[op[2]] ELSE NoValue

Init ==
    /\ map = [k \in Keys |-> NoValue] /\ saved = map
    /\ asked = [c \in Calls |-> << >>]
    /\ answer = [c \in Calls |-> <<"none">>]

Waiting(c) == asked[c] # << >> /\ answer[c] = <<"none">>

Ask(c) ==
    /\ asked[c] = << >> /\ answer[c] = <<"none">>
    /\ \E op \in Operations : asked' = [asked EXCEPT ![c] = op]
    /\ UNCHANGED <<map, saved, answer>>
\* A call acts on a map that is saved, and is answered with what it saw.  Its
\* change may be lost at once.
Act(c) ==
    /\ Waiting(c) /\ map = saved
    /\ map' = After(asked[c], map) \/ (LossAllowed /\ UNCHANGED map)
    /\ answer' = [answer EXCEPT ![c] = <<"ok", Result(asked[c], map)>>]
    /\ UNCHANGED <<saved, asked>>
Refuse(c) ==
    /\ Waiting(c)
    /\ answer' = [answer EXCEPT ![c] = <<"error">>]
    /\ UNCHANGED <<map, saved, asked>>
Save == saved' = map /\ UNCHANGED <<map, asked, answer>>
\* A page that goes takes its calls along, and a change that is not saved.
Lose ==
    /\ LossAllowed
    /\ map' \in {map, saved}
    /\ \E gone \in SUBSET {c \in Calls : answer[c] = <<"none">>} :
        answer' = [c \in Calls |-> IF c \in gone THEN <<"gone">> ELSE answer[c]]
    /\ UNCHANGED <<saved, asked>>

Next == (\E c \in Calls : Ask(c) \/ Act(c) \/ Refuse(c)) \/ Save \/ Lose
Spec == Init /\ [][Next]_vars
=============================================================================
