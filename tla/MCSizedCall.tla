----------------------------- MODULE MCSizedCall -----------------------------
(***************************************************************************)
(* Instances of SizedCall: arrays of up to three elements in any order,    *)
(* with nulls, and strings from the empty one to past INT32_MAX.           *)
(***************************************************************************)
EXTENDS SizedCall

\* Sets iterated in some order, with nulls among them; as lists of positions,
\* just sequences.
Arrays ==
    {<<>>, <<None>>, <<1>>, <<1, 2>>, <<2, 1>>, <<3, 2>>, <<None, 2, 1>>,
     <<3, None, 1>>, <<3, 1, 2>>}

\* Short strings, and those whose length the int32_t holds just, no longer,
\* and as 0 or 1 after a cast.
Texts ==
    {<<1>>, <<2>>, <<1, 2>>} \cup
    {[k \in 1 .. n |-> 1] : n \in {0, 3, IntMax - 1, IntMax, IntMax + 1,
                                    2 * IntMax + 2, 2 * IntMax + 3}}

MCAnswers == [string |-> Texts, ids |-> Arrays, list |-> Arrays]

StartCaps == 0 .. 2

=============================================================================
