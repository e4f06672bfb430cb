------------------------------ MODULE CStrings ------------------------------
(* The strings of src/src/wstring.c: WSTRING, and its twin STRING.           *)
(* A string owns the block at data when its length is not 0; the text of an  *)
(* empty one is a literal.  Two lengths mislead: a cleared string still has  *)
(* the address of its block, and a WSTRING made from a long format has the   *)
(* -1 that vswprintf returned.                                               *)
EXTENDS Integers, Sequences

CONSTANTS
    Strings,    \* addresses of a struct wstring or struct string
    Blocks,     \* addresses of texts
    Words,      \* the texts a program has, none of them empty
    TempLength, \* TEMP_STRING_LENGTH
    NOWHERE,    \* no string or no block
    LITERAL,    \* the address of L""
    UNKNOWN     \* a text nobody promised

\* What is at a string's address
StringStruct == [data : Blocks \cup {LITERAL, NOWHERE}, length : Int]

ASSUME StringsAssumption ==
    /\ Words \subseteq Seq(Int \ {0}) /\ << >> \notin Words /\ UNKNOWN \notin Seq(Int)
    /\ NOWHERE \notin Blocks \cup {UNKNOWN} \cup Seq(Int) /\ LITERAL \notin Blocks \cup {NOWHERE}
    /\ NOWHERE \notin StringStruct /\ TempLength \in Nat

VARIABLES
    wide,       \* the strings are WSTRINGs
    struct,     \* string -> what is at its address, NOWHERE if nothing is
    texts,      \* block -> its characters, NOWHERE if it is free
    given       \* history: string -> what it should read as

stringVars == <<wide, struct, texts, given>>

IsOpen(s) == struct[s] # NOWHERE
Struct(b, n) == [data |-> b, length |-> n]
Empty == Struct(LITERAL, 0)
FreeIn(T) == {b \in Blocks : T[b] = NOWHERE}

\* DELETE of the data of s, whatever its length.
FreedAlways(s) == {struct[s].data} \cap Blocks

\* DELETE of the data of s, as closing, clearing and copying do it.
Freed(s) == IF struct[s].length # 0 THEN {struct[s].data} \cap Blocks ELSE {}

Released(F) == [b \in Blocks |-> IF b \in F THEN NOWHERE ELSE texts[b]]

\* s becomes c and should read as t.
Becomes(s, c, t) ==
    /\ struct' = [struct EXCEPT ![s] = c]
    /\ given' = [given EXCEPT ![s] = t]
    /\ UNCHANGED wide

\* s gets a new block with text t and length n, once T is what the others have.
NewText(s, T, t, n) ==
    \E b \in FreeIn(T) :
        /\ texts' = [T EXCEPT ![b] = t]
        /\ Becomes(s, Struct(b, n), t)

-----------------------------------------------------------------------------

\* open_wstring, or one of the other two on an empty text: the block the format
\* was written to is released at once.
OpenEmpty(s) == ~ IsOpen(s) /\ Becomes(s, Empty, << >>) /\ UNCHANGED texts

OpenWithData(s, t) == ~ IsOpen(s) /\ NewText(s, texts, t, Len(t))

\* A text that fits the first block stays in it. A longer one is formatted again
\* from arguments that were already consumed.
OpenWithFormat(s, t) ==
    /\ ~ IsOpen(s) /\ (wide => Len(t) <= TempLength)
    /\ NewText(s, texts, IF Len(t) + 1 > TempLength THEN UNKNOWN ELSE t, Len(t))

\* vswprintf fails, and the block shrinks to no bytes at all.
OpenWithLongFormat(s, t) ==
    /\ ~ IsOpen(s) /\ wide /\ Len(t) > TempLength
    /\ Becomes(s, Struct(NOWHERE, -1), UNKNOWN) /\ UNCHANGED texts

Close(s) == IsOpen(s) /\ texts' = Released(Freed(s)) /\ Becomes(s, NOWHERE, UNKNOWN)

Clear(s) ==
    /\ IsOpen(s) /\ struct[s].length # 0
    /\ texts' = Released(Freed(s))
    /\ Becomes(s, [struct[s] EXCEPT !.length = 0], UNKNOWN)

\* Of a failed format nothing is copied but the length.
Copy(s, src) ==
    /\ IsOpen(s) /\ IsOpen(src) /\ s # src
    /\ \/ /\ struct[src].length = 0 /\ struct[s].length # 0
          /\ texts' = Released(Freed(s)) /\ Becomes(s, Empty, << >>)
       \/ /\ struct[src].length # 0
          /\ NewText(s, Released(Freed(s)),
                     IF struct[src].length < 0 THEN UNKNOWN ELSE texts[struct[src].data],
                     struct[src].length)

StringsInit ==
    /\ wide \in BOOLEAN
    /\ struct = [s \in Strings |-> NOWHERE]
    /\ texts = [b \in Blocks |-> NOWHERE]
    /\ given = [s \in Strings |-> UNKNOWN]

StringsNext ==
    \E s \in Strings :
        \/ OpenEmpty(s) \/ Close(s) \/ Clear(s)
        \/ \E t \in Words : OpenWithData(s, t) \/ OpenWithFormat(s, t) \/ OpenWithLongFormat(s, t)
        \/ \E src \in Strings : Copy(s, src)

StringsSpec == StringsInit /\ [][StringsNext]_stringVars

-----------------------------------------------------------------------------
(* Properties. *)

Read(s) == IF struct[s].data = LITERAL THEN << >> ELSE texts[struct[s].data]

\* The part of s that wcsncmp looks at when it is given n: up to the terminator.
Seen(s, n) == SubSeq(Append(Read(s), 0), 1, n)

\* wstring_cmp returns 0
Same(s, t) ==
    LET n == IF struct[s].length < struct[t].length THEN struct[s].length ELSE struct[t].length
    IN  Seen(s, n + 1) = Seen(t, n + 1)

Owners(b) == {s \in Strings : IsOpen(s) /\ struct[s].data = b /\ struct[s].length # 0}

\* Every block belongs to one string, and none is released that another string
\* got since; so a string that was not cleared, nor made from too long a format,
\* reads as what was put in it, and compares by its whole text (wstring.c).
TextsKept ==
    /\ \A b \in Blocks : texts[b] # NOWHERE <=> Owners(b) # {}
    /\ \A b \in Blocks, s, t \in Strings : {s, t} \subseteq Owners(b) => s = t
    /\ \A s \in Strings : given[s] # UNKNOWN =>
          /\ Read(s) = given[s]
          /\ \A t \in Strings : given[t] # UNKNOWN => (Same(s, t) <=> given[s] = given[t])

=============================================================================
