------------------------- MODULE MCWitnessTransform -------------------------
(***************************************************************************)
(* Small programs, one keyword a character (I if, W while, F for, S        *)
(* switch), and every witness of up to two segments over their locations.  *)
(***************************************************************************)
EXTENDS WitnessTransform

CONSTANTS
    SingleSegment,  \* Witnesses of one segment too?
    CheckAll,       \* Values of check_all_locations.
    DotI,           \* Is the program a .i file?
    Programs        \* Names of the programs to use.

Node(kind, parent, line, start, end, role) ==
    [kind |-> kind, parent |-> parent, start |-> <<line, start>>,
     end |-> <<line, end>>, role |-> role, ctrl |-> None]
Branch(kind, parent, line, start, end, role, from, to) ==
    [Node(kind, parent, line, start, end, role)
        EXCEPT !.ctrl = <<<<line, from>>, <<line, to>>>>]
Token(semi, line, col) ==
    [semi |-> semi, start |-> <<line, col>>, end |-> <<line, col + 1>>]
For(n, first, second) ==
    [kind |-> n.kind, parent |-> n.parent, start |-> n.start, end |-> n.end,
     role |-> n.role, ctrl |-> n.ctrl, tokens |-> <<first, second>>]

\* An if whose body is a call without braces, and a plain statement.
IfProgram ==
    [lines |-> << <<"{", "I", "(", "a", ")", "f", "(", ")", ";", "x", ";", "}">> >>,
     nodes |-> <<
        Node("compound", 0, 1, 1, 13, "stmt"),
        Branch("if", 1, 1, 2, 9, "stmt", 4, 5),
        Node("expr", 2, 1, 4, 5, "part"),
        Node("call", 2, 1, 6, 9, "body"),
        Node("expr", 4, 1, 6, 7, "part"),
        Node("expr", 1, 1, 10, 11, "stmt") >>]

\* A declaration, then a while loop with nested calls on the second line.
CallProgram ==
    [lines |-> << <<"d", ";">>,
                  <<"{", "W", "(", "b", ")", "g", "(", "h", "(", ")", ")", ";", "}">> >>,
     nodes |-> <<
        Node("decl", 0, 1, 1, 2, "part"),
        Node("compound", 0, 2, 1, 14, "stmt"),
        Branch("while", 2, 2, 2, 12, "stmt", 4, 5),
        Node("expr", 3, 2, 4, 5, "part"),
        Node("call", 3, 2, 6, 12, "body"),
        Node("expr", 5, 2, 6, 7, "part"),
        Node("call", 5, 2, 8, 11, "part"),
        Node("expr", 7, 2, 8, 9, "part") >>]

\* A for loop and a switch: for(i;c;s)f(); S(a){x;}
LoopProgram ==
    [lines |-> << <<"{", "F", "(", "i", ";", "c", ";", "s", ")", "f", "(", ")", ";",
                    "S", "(", "a", ")", "{", "x", ";", "}", "}">> >>,
     nodes |-> <<
        Node("compound", 0, 1, 1, 23, "stmt"),
        For(Branch("for", 1, 1, 2, 13, "stmt", 6, 7),
            Token(FALSE, 1, 4), Token(TRUE, 1, 5)),
        Node("expr", 2, 1, 4, 5, "part"),
        Node("expr", 2, 1, 6, 7, "part"),
        Node("expr", 2, 1, 8, 9, "part"),
        Node("call", 2, 1, 10, 13, "body"),
        Node("expr", 6, 1, 10, 11, "part"),
        Branch("switch", 1, 1, 14, 22, "stmt", 16, 17),
        Node("expr", 8, 1, 16, 17, "part"),
        Node("compound", 8, 1, 18, 22, "stmt"),
        Node("expr", 10, 1, 19, 20, "stmt") >>]

\* A ternary with a call in one arm, and a do loop: y=b ?f():c; D{x;}W(z);
TernaryProgram ==
    [lines |-> << <<"{", "y", "=", "b", " ", "?", "f", "(", ")", ":", "c", ";",
                    "D", "{", "x", ";", "}", "W", "(", "z", ")", ";", "}">> >>,
     nodes |-> <<
        Node("compound", 0, 1, 1, 24, "stmt"),
        Node("expr", 1, 1, 2, 12, "stmt"),
        Node("expr", 2, 1, 2, 3, "part"),
        Branch("cond", 2, 1, 4, 12, "part", 4, 5),
        Node("expr", 4, 1, 4, 5, "part"),
        Node("call", 4, 1, 7, 10, "part"),
        Node("expr", 6, 1, 7, 8, "part"),
        Node("expr", 4, 1, 11, 12, "part"),
        Branch("do", 1, 1, 13, 22, "stmt", 20, 21),
        Node("compound", 9, 1, 14, 18, "stmt"),
        Node("expr", 10, 1, 15, 16, "stmt"),
        Node("expr", 9, 1, 20, 21, "part") >>]

\* A for loop without a condition, and an if whose condition has two lines.
EndlessProgram ==
    [lines |-> << <<"{", "F", "(", ";", ";", "s", ")", "x", ";", "I", "(", "a">>,
                  <<"b", ")", "f", "(", ")", ";", "}">> >>,
     nodes |-> <<
        [Node("compound", 0, 1, 1, 8, "stmt") EXCEPT !.end = <<2, 8>>],
        For(Branch("for", 1, 1, 2, 9, "stmt", 5, 5),
            Token(TRUE, 1, 4), Token(TRUE, 1, 5)),
        Node("expr", 2, 1, 6, 7, "part"),
        Node("expr", 2, 1, 8, 9, "body"),
        [Branch("if", 1, 1, 10, 6, "stmt", 12, 2)
            EXCEPT !.end = <<2, 6>>, !.ctrl = <<<<1, 12>>, <<2, 2>>>>],
        [Node("expr", 5, 1, 12, 2, "part") EXCEPT !.end = <<2, 2>>],
        Node("call", 5, 2, 3, 6, "body"),
        Node("expr", 7, 2, 3, 4, "part") >>]

\* y=b?f():c; - the question mark directly behind the condition.
TightProgram ==
    [lines |-> << <<"{", "y", "=", "b", "?", "f", "(", ")", ":", "c", ";", "}">> >>,
     nodes |-> <<
        Node("compound", 0, 1, 1, 13, "stmt"),
        Node("expr", 1, 1, 2, 11, "stmt"),
        Node("expr", 2, 1, 2, 3, "part"),
        Branch("cond", 2, 1, 4, 11, "part", 4, 5),
        Node("expr", 4, 1, 4, 5, "part"),
        Node("call", 4, 1, 6, 9, "part"),
        Node("expr", 6, 1, 6, 7, "part"),
        Node("expr", 4, 1, 10, 11, "part") >>]

\* for(i=0;;s)f(); - a loop without a condition but with an initialisation.
ForeverProgram ==
    [lines |-> << <<"{", "F", "(", "i", "=", "0", ";", ";", "s", ")", "f", "(",
                    ")", ";", "}">> >>,
     nodes |-> <<
        Node("compound", 0, 1, 1, 16, "stmt"),
        For(Branch("for", 1, 1, 2, 14, "stmt", 8, 8),
            Token(FALSE, 1, 4), Token(FALSE, 1, 5)),
        Node("expr", 2, 1, 4, 7, "part"),
        Node("expr", 2, 1, 9, 10, "part"),
        Node("call", 2, 1, 11, 14, "body"),
        Node("expr", 5, 1, 11, 12, "part") >>]

Program == [if |-> IfProgram, call |-> CallProgram, loop |-> LoopProgram,
            ternary |-> TernaryProgram, endless |-> EndlessProgram,
            forever |-> ForeverProgram, tight |-> TightProgram]

Range2(pg)    == DOMAIN pg.nodes
Lines(pg)     == {pg.nodes[n].start[1] : n \in Range2(pg)}
Zeros(pg)     == {<<l, 0>> : l \in Lines(pg)}
Starts(pg)    == {pg.nodes[n].start : n \in Range2(pg)}
Questions(pg) == {p \in UNION {{l} \X DOMAIN pg.lines[l] : l \in DOMAIN pg.lines} :
                     pg.lines[p[1]][p[2]] = "?"}
CallEnds(pg)  == {<<pg.nodes[n].end[1], pg.nodes[n].end[2] - 1>> :
                     n \in {m \in Range2(pg) : pg.nodes[m].kind = "call"}}

W(type, action, loc) ==
    [type |-> type, action |-> action, line |-> loc[1], col |-> loc[2],
     constraint |-> 1, loc2 |-> None]

Avoids(pg)  == {W("assumption", "avoid", l) : l \in Starts(pg) \cup Zeros(pg)}
Follows(pg) ==
    {W("assumption", "follow", l) : l \in Starts(pg) \cup Zeros(pg)}
    \cup {W("branching", "follow", l) : l \in Questions(pg) \cup Zeros(pg)
            \cup {pg.nodes[n].start : n \in {m \in Range2(pg) :
                                               pg.nodes[m].ctrl # None}}}
    \cup {W("call", "follow", l) : l \in CallEnds(pg) \cup Zeros(pg)}
Targets(pg) == {W("target", "follow", l) :
                   l \in Zeros(pg) \cup {pg.nodes[n].start : n \in {m \in Range2(pg) :
                       pg.nodes[m].kind \in {"expr", "call"}}}}
Cycles(pg)  == {[w EXCEPT !.action = "cycle"] : w \in Follows(pg)}
Lasts(pg)   == Follows(pg) \cup Targets(pg)

Witnesses(pg) ==
    {<<<<f>>, <<t>>>> : f \in Follows(pg), t \in Lasts(pg)}
    \cup {<<<<c>>, <<d>>>> : c, d \in Cycles(pg)}
    \cup (IF SingleSegment
          THEN {<<<<a, t>>>> : a \in Avoids(pg) \cup Cycles(pg) \cup Follows(pg),
                             t \in Lasts(pg)}
          ELSE {})

MCInputs ==
    UNION {[prog : {Program[p]}, isI : DotI, checkAll : CheckAll,
            witness : Witnesses(Program[p])] : p \in Programs}

\* The branches of these programs are such that ControlsFit holds.
ASSUME ControlsAssumption ==
    \A in \in MCInputs :
        in.prog \notin {ForeverProgram, TightProgram} => ControlsFit(in.prog, in.witness)
=============================================================================
