------------------------------ MODULE MCParts ------------------------------
(* The parts that share no state with another, for TLC in one run: `part` is *)
(* chosen at the start, and only that part takes steps.  The others stay in  *)
(* one of their initial states.                                              *)
EXTENDS MemStorage, CrbNames, CrbLoops, CStrings, CrbInput, SkipList, Heap,
        LinkedList, Sorting, CrbValues

CONSTANTS
    chr1, chr2,                 \* characters of a program text
    lib, nameF, nameG, nameS,   \* a module and names of a program
    obj1, obj2, obj3, SCALAR, MODULE_VALUE  \* values of a program

MCWords == {<<1>>, <<2>>, <<1, 1>>, <<1, 2>>, <<1, 1, 1>>}

MCBuiltin == << <<chr1, NL>>, <<chr2, chr1, NL>> >>
MCFiles == UNION {[1..n -> {chr1, NL, BAD, FOLD}] : n \in 0..4}
MCTyped == {<< >>, <<chr1>>, <<chr1, chr2>>, <<chr1, BAD, chr2>>}

MCFunctions == {<<main, nameF>>, <<lib, nameS>>, <<builtin, nameG>>}

MCLiterals == {<<"int", 0>>, <<"int", 3>>, <<"float">>}
MCCandidates == {<<"int", -1>>, <<"boolean", TRUE>>, <<"boolean", FALSE>>, <<"null">>,
                 <<"array", 1>>, <<"string", << <<"text", 1>> >> >>}

VARIABLES
    part,
    members                                                         \* CrbText

Texts == INSTANCE CrbText WITH Objects <- {obj1, obj2, obj3}, MaxMembers <- 2

Init ==
    /\ part \in {"memory", "names", "skip list", "heap", "list", "sorting", "input",
                "values", "text", "loops", "strings"}
    /\ MemInit /\ NamesInit
    /\ SkipInit /\ (part # "skip list" => ~ compare2)
    /\ HeapInit /\ ListInit
    /\ SortInit /\ (part # "sorting" => input = << >>)
    /\ InputInit /\ (part # "input" => file = NO_TEXT)
    /\ ValuesInit /\ Texts!TextInit
    /\ LoopInit
    /\ StringsInit /\ (part # "strings" => wide)

Only(p) ==
    /\ part = p /\ UNCHANGED part
    /\ p # "memory" => UNCHANGED memVars
    /\ p # "names" => UNCHANGED namesVars
    /\ p # "skip list" => UNCHANGED skipVars
    /\ p # "heap" => UNCHANGED heapVars
    /\ p # "list" => UNCHANGED listVars
    /\ p # "sorting" => UNCHANGED sortVars
    /\ p # "input" => UNCHANGED inputVars
    /\ p # "values" => UNCHANGED valueVars
    /\ p # "text" => UNCHANGED members
    /\ p # "loops" => UNCHANGED loopVars
    /\ p # "strings" => UNCHANGED stringVars

Next ==
    \/ Only("memory") /\ MemNext
    \/ Only("names") /\ NamesNext
    \/ Only("skip list") /\ SkipNext
    \/ Only("heap") /\ HeapNext
    \/ Only("list") /\ ListNext
    \/ Only("sorting") /\ SortNext
    \/ Only("input") /\ InputNext
    \/ Only("values") /\ ValuesNext
    \/ Only("text") /\ Texts!TextNext
    \/ Only("loops") /\ LoopNext
    \/ Only("strings") /\ StringsNext

Spec == Init /\ [][Next]_<<part, memVars, namesVars, skipVars, heapVars, listVars, sortVars, inputVars,
                          valueVars, members, loopVars, stringVars>>

-----------------------------------------------------------------------------

\* CRB_value_to_string writes out every object once, whatever contains it.
WrittenOutOnce == part = "text" => Texts!WrittenOutOnce

=============================================================================
