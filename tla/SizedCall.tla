------------------------------ MODULE SizedCall ------------------------------
(***************************************************************************)
(* The exports that fill a caller's buffer and return the length the whole *)
(* answer needs: write_string(), write_ids(), write_positions(), and the   *)
(* host loop the convention is for: call with the buffer at hand, and grow *)
(* it and retry only when what came back did not fit.                      *)
(*                                                                         *)
(* The answer may change between two calls (units die, another failure     *)
(* replaces the error message), a collection comes in whatever order the   *)
(* hash set has, and the buffer still holds what an earlier call wrote.    *)
(* BWAPI's ranges and strings are external: a sequence of elements.        *)
(***************************************************************************)
EXTENDS Integers, Sequences, FiniteSets

CONSTANTS
    Kinds,      \* what the export returns: subset of {"string", "ids", "list"}
    Answers,    \* the sequences the wrapped call may yield, for each kind
    Caps,       \* buffer lengths the host starts with
    Slack,      \* what the host adds when it grows the buffer
    IntMax,     \* INT32_MAX
    MaxChanges  \* bound: how often the answer changes

ASSUME KindAssumption == Kinds \subseteq {"string", "ids", "list"}
ASSUME SlackAssumption == Slack \in Nat
ASSUME MaxAssumption == IntMax \in Nat /\ MaxChanges \in Nat
ASSUME CapsAssumption == Caps \subseteq 0 .. IntMax
\* A range is a container of the game's or of the type tables: its size is an
\* int32_t, which write_ids() and write_positions() count in without a clamp.
ASSUME AnswersAssumption ==
    \A k \in Kinds : \A a \in Answers[k] :
        a \in Seq(Int) /\ (k # "string" => Len(a) <= IntMax)

None == -1      \* BWAPI_NONE

\* A cell of the buffer: what the host left, an element, or the NUL.
Left == <<"left">>
Elem(e) == <<"element", e>>
Nul == <<"nul">>

VARIABLES
    kind,     \* the export the host calls
    answer,   \* what the wrapped call would yield now
    changes,
    out, cap, \* the host's buffer and its length
    pc,       \* "host": about to call; "taken": it holds an answer it believes
    ret, code,
    before,   \* the buffer at the last call, and
    seen      \* the answer it was given, to state properties with

vars == <<kind, answer, changes, out, cap, pc, ret, code, before, seen>>

Smaller(a, b) == IF a <= b THEN a ELSE b

Cells == 1 .. IntMax

----------------------------------------------------------------------------
(* The writers: what is returned, and what the buffer holds afterwards.    *)

\* The elements write_ids() pushes: those that are not null.
Kept(a) == {j \in DOMAIN a : a[j] # None}

\* std::sort: which of two equal ones comes first does not show.
Order(a) ==
    CHOOSE p \in [1 .. Cardinality(Kept(a)) -> Kept(a)] :
        \A i, k \in DOMAIN p : i < k => p[i] # p[k] /\ a[p[i]] <= a[p[k]]

\* write_ids() drops the nulls and sorts; the other two keep the order.
\* Mutant: no sort.
Unsorted(a) == IF kind = "ids" THEN SelectSeq(a, LAMBDA e : e # None) ELSE a
Converted(a) ==
    IF kind # "ids" THEN a
    ELSE LET p == Order(a) IN [k \in 1 .. Cardinality(Kept(a)) |-> a[p[k]]]

\* The elements there is room for: a string keeps a cell for its NUL.
\* Mutant: it does not.
NoRoomForNul(n, a) == Smaller(n, Len(a))
Room(n, a) ==
    LET room == IF kind = "string" THEN n - 1 ELSE n
    IN  IF n <= 0 THEN 0 ELSE Smaller(room, Len(a))

\* The buffer after a call with n cells.
Written(n, a) ==
    [k \in Cells |->
        CASE k <= Room(n, a) -> Elem(a[k])
          [] kind = "string" /\ n > 0 /\ k = Room(n, a) + 1 -> Nul
          [] OTHER -> out[k]]

\* The length the answer needs: write_string() clamps it.
\* Mutant: static_cast<int32_t>() without the clamp.
Wraps(a) == Len(a) % (2 * (IntMax + 1))
\* Mutant: the count starts at the caller's cap.
CountsFromCap(a) == Smaller(cap + Len(a), IntMax)
Needed(a) == IF kind = "string" THEN Smaller(Len(a), IntMax) ELSE Len(a)

----------------------------------------------------------------------------
(* The host.                                                               *)

Init ==
    /\ kind \in Kinds /\ answer \in Answers[kind] /\ cap \in Caps
    /\ out = [k \in Cells |-> Left]
    /\ before = out /\ seen = <<>>
    /\ changes = 0 /\ pc = "host" /\ ret = 0 /\ code = "none"

\* Does what came back fit?  A string needs room for its NUL.
Fits(r) == IF kind = "string" THEN r < cap ELSE r <= cap

\* The buffer the host grows to, in the int32_t it can pass.
Grown(r) == Smaller(r + Slack + (IF kind = "string" THEN 1 ELSE 0), IntMax)

\* One call with the buffer at hand; cap = 0 is the size query.
Call ==
    /\ pc = "host"
    /\ LET a == Converted(answer)
       IN  /\ out' = Written(cap, a)
           /\ ret' = Needed(a)
    /\ before' = out /\ seen' = answer /\ code' = "none"
    /\ IF Fits(ret') THEN pc' = "taken" /\ cap' = cap
                     ELSE pc' = "host" /\ cap' = Grown(ret')
    /\ UNCHANGED <<kind, answer, changes>>

\* A call with a negative length, or NULL and a length that is not 0: refused
\* by check_string_buffer() or check_buffer() before anything is written.
CallMalformed ==
    /\ pc = "host"
    /\ before' = out /\ ret' = 0 /\ code' = "BAD_BUFFER"
    /\ UNCHANGED <<kind, answer, changes, out, cap, pc, seen>>

\* The wrapped call throws: guard() returns the neutral value, after
\* empty_string() for a string.
CallThrows ==
    /\ pc = "host"
    /\ out' = IF kind = "string" /\ cap > 0 THEN [out EXCEPT ![1] = Nul] ELSE out
    /\ before' = out /\ ret' = 0 /\ code' = "EXCEPTION"
    /\ changes < MaxChanges /\ changes' = changes + 1
    /\ UNCHANGED <<kind, answer, cap, pc, seen>>

\* The game, or another thread's failure, changes the answer.
Change(a) ==
    /\ changes < MaxChanges /\ changes' = changes + 1
    /\ answer' = a
    /\ UNCHANGED <<kind, out, cap, pc, ret, code, before, seen>>

\* The host is done with the answer and asks again, with the same buffer.
AskAgain ==
    /\ pc = "taken" /\ pc' = "host"
    /\ UNCHANGED <<kind, answer, changes, out, cap, ret, code, before, seen>>

Next ==
    \/ Call \/ CallMalformed \/ CallThrows \/ AskAgain
    \/ \E a \in Answers[kind] : Change(a)

\* The host's program runs; failures and changes are not owed.
Fairness == WF_vars(Call) /\ WF_vars(AskAgain)

Spec == Init /\ [][Next]_vars /\ Fairness

----------------------------------------------------------------------------

\* What the host takes for the whole answer is the whole answer of that call:
\* not the head of a longer one (even when its length is not an int32_t), not
\* a mix with what an earlier call left, and a string ends where it should.
TakenIsWhole ==
    pc = "taken" =>
        /\ Len(Converted(seen)) = ret
        /\ \A k \in 1 .. ret : out[k] = Elem(Converted(seen)[k])
        /\ kind = "string" => out[ret + 1] = Nul

\* No call writes past the buffer it was given (a host grows its buffer after
\* the call, so that the cap of the call is no larger), a refused one writes
\* nothing, and a string that was written, whole or truncated, empty or not,
\* ends inside the buffer.
StaysInBuffer ==
    [][/\ \A k \in Cells : k > cap \/ code' = "BAD_BUFFER" => out'[k] = out[k]
       /\ kind = "string" /\ cap > 0 /\ (Call \/ CallThrows) =>
             \E k \in 1 .. cap : out'[k] = Nul]_vars

\* A truncated answer is the head of the whole one whatever order the set was
\* iterated in: the ids written ascend, none is BWAPI_NONE, and an id left
\* out is larger than all of them.
TruncatedIsSmallest ==
    [][kind = "ids" /\ Call =>
          LET ids == {answer[j] : j \in DOMAIN answer} \ {None}
          IN  \A k \in 1 .. Smaller(cap, ret') :
                  /\ out'[k][2] \in ids
                  /\ \A e \in ids : e < out'[k][2] =>
                        \E j \in 1 .. k - 1 : out'[j] = Elem(e)]_vars

\* Once the answer stops changing the host's loop ends with an answer: it is
\* not told to grow for ever.  No buffer fits a string of INT32_MAX bytes: a
\* host that asks for one is not served, and TakenIsWhole says it is not misled.
HostServed ==
    []<>(pc = "taken") \/ <>[](kind = "string" /\ Len(answer) >= IntMax)

=============================================================================
