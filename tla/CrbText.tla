------------------------------ MODULE CrbText ------------------------------
(* CRB_value_to_string of src/tlang/tmisc.c, which print, concatenation and  *)
(* error messages use: the text of an array or object that may contain       *)
(* itself, or the same array more than once.                                 *)
EXTENDS Naturals, Sequences, FiniteSets

CONSTANTS
    Objects,        \* arrays and associative arrays
    SCALAR, MODULE_VALUE,   \* a value with a text of its own, and one without
    MaxMembers      \* bound on the size of an object, for model checking

VARIABLE members    \* object -> its elements or member values, in order

Contents == Objects \cup {SCALAR, MODULE_VALUE}

TextInit == members = [o \in Objects |-> << >>]

(* array.append, or a new member of an object *)
Store(o, v) ==
    /\ Len(members[o]) < MaxMembers
    /\ members' = [members EXCEPT ![o] = Append(@, v)]

TextNext == \E o \in Objects, v \in Contents : Store(o, v)

TextSpec == TextInit /\ [][TextNext]_members

-----------------------------------------------------------------------------

(* Of what a member's text recorded, nothing is known to the next member *)
RecordOfPath(before, sub) == before.record

(* The record of one call, from member to member: params->record *)
RecordAfter(before, sub) == sub.record

(* A type the switch has no case for is formatted and not appended *)
ScalarText(v) == IF v = MODULE_VALUE THEN << >> ELSE << <<"scalar", v>> >>

(* The text of v in tokens and the objects recorded, after those of record *)
RECURSIVE ToString(_, _)
ToString(v, record) ==
    LET after[i \in 0..Len(members[v])] ==
          IF i = 0 THEN [text |-> << <<"open", v>> >>, record |-> record \cup {v}]
          ELSE LET before == after[i - 1]
                   m == members[v][i]
                   sub == ToString(m, before.record)
               IN  IF m \in before.record  \* check_record: [...]
                   THEN [before EXCEPT !.text = Append(@, <<"again", m>>)]
                   ELSE [text |-> before.text \o sub.text, record |-> RecordAfter(before, sub)]
        last == after[Len(members[v])]
    IN  IF v \notin Objects THEN [text |-> ScalarText(v), record |-> record]
        ELSE [last EXCEPT !.text = Append(@, <<"close", v>>)]

-----------------------------------------------------------------------------

TimesIn(s, x) == Cardinality({i \in 1..Len(s) : s[i] = x})

Reached(root) ==
    LET from[n \in 0..Cardinality(Objects)] ==
          IF n = 0 THEN {root}
          ELSE from[n - 1] \cup {o \in Objects :
                   \E p \in from[n - 1] : TimesIn(members[p], o) > 0}
    IN  from[Cardinality(Objects)]

(* Whatever contains what, the text is finite, and has each object below the   *)
(* root written out just once, between its brackets, with [...] for every      *)
(* other place it is in (check_record).                                        *)
WrittenOutOnce ==
    \A root \in Objects :
        LET text == ToString(root, {}).text
            reached == Reached(root)
            places(o) == {<<p, i>> \in reached \X (1..MaxMembers) :
                             i <= Len(members[p]) /\ members[p][i] = o}
        IN  \A o \in Objects :
              /\ TimesIn(text, <<"open", o>>) = IF o \in reached THEN 1 ELSE 0
              /\ TimesIn(text, <<"close", o>>) = TimesIn(text, <<"open", o>>)
              /\ o \in reached =>
                    TimesIn(text, <<"again", o>>) + (IF o = root THEN 0 ELSE 1)
                        = Cardinality(places(o))

=============================================================================
