------------------------------ MODULE TypeWalk ------------------------------
(***************************************************************************)
(* A host walking the type data.  It starts from an id of its own or from  *)
(* a player, asks an accessor or looks the id up in a table it has read,   *)
(* and goes on from the answer: an id of another class, a neutral value    *)
(* when the call failed.  What upstream answers is external: any id its    *)
(* class can hold.                                                         *)
(***************************************************************************)
EXTENDS TypeTables

CONSTANTS
    Ids,    \* the ids to walk with, valid ones and others
    Start   \* the classes the host makes up ids of

ASSUME IdsAssumption == Ids \subseteq Int /\ Start \subseteq ClassNames

VARIABLES
    cls, id,  \* the id in the host's hand and the class it is of
    how,      \* where it is from: "guess", "answer" or "neutral"
    table,    \* the class whose table the host has read last
    rows      \* how many rows of it the host has

vars == <<cls, id, how, table, rows>>

Init ==
    /\ cls = "UnitType" /\ id = 0 /\ how = "guess"
    /\ table = "UnitType" /\ rows = 0

Guess(c, v) ==
    /\ cls' = c /\ id' = v /\ how' = "guess"
    /\ UNCHANGED <<table, rows>>

\* The ids of a class among Ids, with its first and its last.
Held(c) == {0, UnknownId(c)} \cup {v \in Ids : 0 <= v /\ v <= UnknownId(c)}

\* What an accessor of kind c gives the host: upstream's answer, or the
\* neutral value of the export when the wrapped call threw or, on a player,
\* the connection or the handle was not valid.
Answer(e) ==
    /\ e.kind \in ClassNames
    /\ cls' = e.kind
    /\ \/ how' = "answer" /\ id' \in Held(e.kind)
       \/ ~ e.many /\ how' = "neutral" /\ id' = Neutral(e.kind)
    /\ UNCHANGED <<table, rows>>

\* The wrappers of types.gen.cpp: BWAPI::UnitType(unit_type).groundWeapon().
Ask(e) == e \in Exports[cls] /\ Answer(e)

\* The wrappers of player.gen.cpp.
AskPlayer(e) == e \in PlayerExports /\ Answer(e)

\* A table read with an array of n rows: n is what a size query returned, or
\* the class's MAX constant, or less.
Sizes(c) == {id_count(c), 1} \cup ({Classes[c].max} \ {NoMax})

ReadTable(c, n) ==
    /\ table' = c
    /\ rows' = IF n < id_count(c) THEN n ELSE id_count(c)
    /\ UNCHANGED <<cls, id, how>>

\* A column of the row the id in hand is the index of.  The row was filled
\* from the accessor when the table was read, so nothing can fail now.
LookUp(f) ==
    /\ cls = table /\ id >= 0 /\ id < rows
    /\ f \in DOMAIN Tables[cls] \ {"id"}
    /\ \E e \in Exports[cls] :
           /\ e.name = Tables[cls][f] /\ e.kind \in ClassNames
           /\ cls' = e.kind /\ how' = "answer" /\ id' \in Held(e.kind)
    /\ UNCHANGED <<table, rows>>

Next ==
    \/ \E c \in Start, v \in Ids : Guess(c, v)
    \/ \E e \in Exports[cls] : Ask(e)
    \/ \E e \in PlayerExports : AskPlayer(e)
    \/ \E c \in DOMAIN Tables : \E n \in Sizes(c) : ReadTable(c, n)
    \/ \E f \in DOMAIN Tables[table] : LookUp(f)

Spec == Init /\ [][Next]_vars

----------------------------------------------------------------------------

\* An id the library handed out is one the library takes: valid for its
\* class, below the MAX an array is sized with, and, when the host has the
\* class's whole table, the index of a row.  Neutral values included.
LinkResolves ==
    how # "guess" =>
        /\ IsValid(cls, id)
        /\ Classes[cls].max # NoMax => id < Classes[cls].max
        /\ cls = table /\ rows >= UnknownId(cls) => id < rows

\* structs.yaml: "every scalar accessor of the class for one id", "Every field
\* equals the accessor of the same name": no accessor is left out of the row
\* or filled in twice, and a column that is an id is an id of that class.
RowsMirror ==
    cls \in DOMAIN Tables =>
        LET fill == Tables[cls]
            columns == DOMAIN fill \ {"id"}
        IN  /\ {fill[f] : f \in columns} =
                  {e.name : e \in {a \in Exports[cls] : Scalar(a)}}
            /\ \A f, g \in columns : f # g => fill[f] # fill[g]

=============================================================================
