-------------------------- MODULE WitnessTransform --------------------------
(***************************************************************************)
(* ValidationTransformer: it reads a violation witness, finds the          *)
(* witness' locations in the program's syntax tree, inserts calls of the   *)
(* validator into the C text, and moves the locations that are still       *)
(* needed to where the text they name has gone.                            *)
(*                                                                         *)
(* A program is a record: its lines of characters, and the cursors libclang*)
(* reports for it in the order traverse_AST meets them.  A location is     *)
(* <<line, column>>, column 0 standing for a column the witness omits.     *)
(* The extent of a node is [start, end), as libclang gives it.             *)
(***************************************************************************)
EXTENDS Integers, SequencesExt

CONSTANTS
    Inputs   \* Set of records [prog, isI, checkAll, witness].

VARIABLES
    phase,        \* What the transformer does next.
    prog,         \* The program.
    isI,          \* Does the name of the program end with .i?
    checkAll,     \* check_all_locations
    witness,      \* The witness as it was read: a sequence of segments.
    content,      \* witness[0]['content'], whose locations are rewritten.
    node,         \* Cursors traverse_AST has visited.
    calls, assumptions, branchings, switches, target,  \* The dictionaries.
    seg, way,     \* The waypoint transform looks at.
    sIndex,       \* s_index
    covered,      \* conditions_covered
    inserts,      \* _insert: a list of <<line, column, value>>.
    cLines,       \* c_lines
    shift,        \* _shift: for each line a list of <<column, length>>.
    bad           \* bad_segments

input == <<prog, isI, checkAll, witness>>
maps  == <<calls, assumptions, branchings, switches, target>>
cursor == <<seg, way, sIndex, covered, inserts, bad>>
text  == <<cLines, shift>>
vars  == <<phase, input, content, node, maps, cursor, text>>

None == <<>>    \* Python's None

----------------------------------------------------------------------------
(* What libclang and the schema of witnesses promise of an input.          *)

\* A position the text can be changed at: a line of it, a column from 1.
Spots(pg) == (DOMAIN pg.lines) \X (Nat \ {0})

ChildrenIn(pg, n) == {m \in DOMAIN pg.nodes : pg.nodes[m].parent = n}

\* The first two tokens behind the parenthesis of a for statement.
IsToken(pg, token) ==
    /\ token.semi \in BOOLEAN
    /\ token.start \in Spots(pg) /\ token.end \in Spots(pg)
    /\ token.end[2] > 1

IsNode(pg, n) ==
    LET e    == pg.nodes[n]
        many == Cardinality(ChildrenIn(pg, n))
    IN  /\ e.parent \in 0..n - 1
        /\ e.start \in Spots(pg) /\ e.end \in Spots(pg)
        /\ e.start[1] >= pg.nodes[1].start[1]
        /\ e.start[2] \in DOMAIN pg.lines[e.start[1]]
        /\ e.kind \in {"if", "while", "switch", "paren"} => many >= 1
        /\ e.kind \in {"do", "cond"} => many >= 2
        /\ e.kind = "for" => \A i \in 1..2 : IsToken(pg, e.tokens[i])

IsProgram(pg) ==
    /\ pg.lines \in Seq(Seq(STRING)) /\ pg.lines # <<>>
    /\ Len(pg.nodes) \in Nat /\ DOMAIN pg.nodes = 1..Len(pg.nodes)
    /\ \A n \in DOMAIN pg.nodes : IsNode(pg, n)

Waypoints ==
    [type : {"call", "target", "assumption", "branching"},
     action : {"follow", "avoid", "cycle"}, line : Nat, col : Nat, constraint : Nat,
     loc2 : {None} \cup (Nat \X Nat)]

ASSUME InputsAssumption ==
    \A in \in Inputs :
        /\ IsProgram(in.prog)
        /\ in.isI \in BOOLEAN /\ in.checkAll \in BOOLEAN
        /\ in.witness \in Seq(Seq(Waypoints))

----------------------------------------------------------------------------
(* The syntax tree. *)

Nodes       == 1..Len(prog.nodes)
Kind(n)     == IF n = 0 THEN "unit" ELSE prog.nodes[n].kind
Parent(n)   == prog.nodes[n].parent
Start(n)    == prog.nodes[n].start
End(n)      == prog.nodes[n].end
Children(n) == {m \in Nodes : Parent(m) = n}
Index(n)    == Cardinality({m \in Children(Parent(n)) : m < n})
Child(n, i) == CHOOSE m \in Children(n) : Index(m) = i
IsLast(n)   == \A m \in Children(Parent(n)) : m <= n

IsExpression(n) == Kind(n) \in {"expr", "call", "cond", "paren"}
StatementKinds  == {"compound", "if", "while", "do", "for", "switch", "case",
                    "label", "stmt"}

\* The parameter full of traverse_AST: no enclosing cursor is an expression.
Full[n \in Nodes] ==
    Parent(n) = 0 \/ (~IsExpression(Parent(n)) /\ Full[Parent(n)])

IsStatement(n) ==
    LET p == Kind(Parent(n))
    IN  \/ p \in {"compound", "label"}
        \/ Kind(n) \in StatementKinds
        \/ p \in {"while", "switch", "for", "case"} /\ IsLast(n)
        \/ p = "if" /\ Index(n) # 0
        \/ p = "do" /\ Index(n) = 0

\* The role the grammar of C gives a node: a statement of a block, the body of
\* another statement (text follows it), or a part of one.
RoleFits(pg, n) ==
    LET e      == pg.nodes[n]
        within == IF e.parent = 0 THEN "unit" ELSE pg.nodes[e.parent].kind
        older  == Cardinality({m \in ChildrenIn(pg, e.parent) : m < n})
        body   == \/ within = "label" \/ e.kind \in StatementKinds
                  \/ within \in {"while", "switch", "for", "case"}
                     /\ \A m \in ChildrenIn(pg, e.parent) : m <= n
                  \/ within = "if" /\ older # 0
                  \/ within = "do" /\ older = 0
    IN  /\ within = "compound" => e.role = "stmt"
        /\ within # "compound" /\ body =>
              IF e.kind = "compound" THEN e.role \in {"stmt", "body"}
              ELSE e.role = "body" /\ e.end[2] \in DOMAIN pg.lines[e.end[1]]

\* Does an assumption waypoint of the witness name the position?
AssumedAt(wit, loc) ==
    \E s \in DOMAIN wit : \E i \in DOMAIN wit[s] :
        /\ wit[s][i].type = "assumption"
        /\ wit[s][i].line = loc[1] /\ wit[s][i].col \in {0, loc[2]}

ASSUME RolesAssumption ==
    \A in \in Inputs : \A n \in DOMAIN in.prog.nodes :
        AssumedAt(in.witness, in.prog.nodes[n].start) => RoleFits(in.prog, n)

Before(a, b) == a[1] < b[1] \/ (a[1] = b[1] /\ a[2] < b[2])
Plus(a, k)   == <<a[1], a[2] + k>>

\* The question marks of the text from a to before b.
MarksIn(pg, a, b) ==
    {p \in UNION {{l} \X DOMAIN pg.lines[l] : l \in DOMAIN pg.lines} :
        /\ ~Before(p, a) /\ Before(p, b)
        /\ pg.lines[p[1]][p[2]] = "?"}

\* Is m the child of n that i others precede?
IsChild(pg, n, m, i) ==
    /\ m \in ChildrenIn(pg, n)
    /\ Cardinality({k \in ChildrenIn(pg, n) : k < m}) = i

\* The places a branching waypoint names a node by: the keyword of the
\* statement, the question marks between condition and first arm.
PlacesIn(pg, n) ==
    LET e     == pg.nodes[n]
        pairs == {c \in ChildrenIn(pg, n) \X ChildrenIn(pg, n) :
                    IsChild(pg, n, c[1], 0) /\ IsChild(pg, n, c[2], 1)}
    IN  CASE e.kind \in {"if", "while", "do", "for", "switch"} -> {e.start}
          [] e.kind = "cond" ->
                UNION {MarksIn(pg, pg.nodes[c[1]].end, pg.nodes[c[2]].start) : c \in pairs}
          [] OTHER -> {}

\* Is m the control expression of n by the grammar of C?
IsControl(pg, n, m) ==
    LET e == pg.nodes[n]
    IN  CASE e.kind \in {"if", "while", "switch"} -> IsChild(pg, n, m, 0)
          [] e.kind = "do"   -> IsChild(pg, n, m, 1)
          [] e.kind = "for"  -> /\ e.ctrl[1] # e.ctrl[2]
                                /\ IsChild(pg, n, m, IF e.tokens[1].semi THEN 0 ELSE 1)
          [] e.kind = "cond" ->
                \E k \in ChildrenIn(pg, n) :
                    /\ IsChild(pg, n, k, 0)
                    /\ IF pg.nodes[k].kind = "paren" THEN IsChild(pg, k, m, 0) ELSE m = k
          [] OTHER -> FALSE

\* The header of a for statement is one that two tokens and the number of the
\* parts tell from the others: for(;;), or one with a condition, which for(i;c;)
\* (an initialisation of one token and no step) is not.
HeaderFits(pg, n) ==
    LET e     == pg.nodes[n]
        full  == Cardinality(ChildrenIn(pg, n)) = 4
    IN  IF e.ctrl[1] = e.ctrl[2]
        THEN /\ e.tokens[1].semi /\ e.tokens[2].semi /\ ~full
             /\ e.tokens[2].start = e.ctrl[1] /\ e.tokens[2].end = Plus(e.ctrl[1], 1)
        ELSE /\ e.tokens[1].semi => ~full
             /\ e.tokens[2].semi => full

\* The tree gives the control expression, and in its last line it is followed
\* by a blank or a parenthesis; in a for statement anything may follow.
ControlFits(pg, n) ==
    LET e    == pg.nodes[n]
        from == e.ctrl[1]
        to   == e.ctrl[2]
    IN  /\ e.ctrl # None
        /\ from \in Spots(pg) /\ from[2] \in DOMAIN pg.lines[from[1]]
        /\ to \in Spots(pg) /\ to[2] \in DOMAIN pg.lines[to[1]]
        /\ IF e.kind = "for" THEN HeaderFits(pg, n) ELSE from # to
        /\ from # to => Before(from, to)
        /\ \A m \in DOMAIN pg.nodes :
              IsControl(pg, n, m) => e.ctrl = <<pg.nodes[m].start, pg.nodes[m].end>>
        /\ e.kind # "for" => pg.lines[to[1]][to[2]] \in {" ", ")"}

\* Does a branching waypoint of the witness name the position?
BranchedAt(wit, loc) ==
    \E s \in DOMAIN wit : \E i \in DOMAIN wit[s] :
        /\ wit[s][i].type = "branching"
        /\ wit[s][i].line = loc[1] /\ wit[s][i].col \in {0, loc[2]}

\* What branching waypoints of the witness name has a control expression that fits.
ControlsFit(pg, wit) ==
    \A n \in DOMAIN pg.nodes : \A loc \in PlacesIn(pg, n) :
        BranchedAt(wit, loc) => ControlFits(pg, n)

----------------------------------------------------------------------------
(* The inserted text.  A value is a tuple of numbers that compares as the  *)
(* strings do (segments, lines and columns have one digit): its kind, then *)
(* what distinguishes two texts of the kind.                               *)

Close  == <<1>>                                     \* ")"
Close1 == <<2>>                                     \* "1)"
Brace  == <<3>>                                     \* ";}"
BranchCall(line, col) == <<4, line, col>>
SwitchCall(line, col) == <<5, line, col>>
Declarations == <<6>>                               \* ends its line
CreateAssumption(constr, s, follow, bracket) ==     \* "if(...", "{if(..."
    <<IF bracket THEN 8 ELSE 7, s, constr, IF follow THEN 1 ELSE 0>>

\* The lengths of the texts, reduced to distinct small numbers.
Width(value) == <<1, 2, 2, 3, 3, 4, 3, 4>>[value[1]]

ValueLess(v, w) ==
    \E i \in 1..Len(v) :
        /\ i <= Len(w) /\ v[i] < w[i]
        /\ \A j \in 1..i - 1 : v[j] = w[j]

\* The three stable sorts of _insert_calls.
InsertedFirst(x, y) ==
    \/ x[1] > y[1]
    \/ x[1] = y[1] /\ x[2] > y[2]
    \/ x[1] = y[1] /\ x[2] = y[2] /\ ValueLess(x[3], y[3])

\* A character of the output: one of the source, at its place, or a new one.
Source(l, c) == [at |-> <<l, c>>, new |-> None]
New(value)   == [at |-> <<0, 0>>, new |-> value]

\* line[:col-1] + value + line[col-1:]
InsertText(line, col, value) ==
    LET before == IF col - 1 < Len(line) THEN col - 1 ELSE Len(line)
    IN  SubSeq(line, 1, before)
        \o [i \in 1..Width(value) |-> New(value)]
        \o SubSeq(line, before + 1, Len(line))

\* Mutant: a second text at a column replaces the length of the first.
OverwriteShift(cols, col, length) ==
    SelectSeq(cols, LAMBDA c : c[1] # col) \o <<<<col, length>>>>

AddShift(cols, col, length) ==
    IF \E i \in DOMAIN cols : cols[i][1] = col
    THEN [i \in DOMAIN cols |-> IF cols[i][1] = col
                                THEN <<col, cols[i][2] + length>> ELSE cols[i]]
    ELSE Append(cols, <<col, length>>)

----------------------------------------------------------------------------

Init ==
    /\ \E in \in Inputs :
          /\ prog = in.prog
          /\ isI = in.isI
          /\ checkAll = in.checkAll
          /\ witness = in.witness
          /\ content = in.witness
    /\ phase = "collect"
    /\ node = 0
    /\ calls = None /\ assumptions = None /\ branchings = None
    /\ switches = None /\ target = None
    /\ seg = 1 /\ way = 1 /\ sIndex = 0
    /\ covered = {}
    /\ inserts = <<>>
    /\ cLines = [l \in DOMAIN prog.lines |->
                    [c \in DOMAIN prog.lines[l] |-> Source(l, c)]]
    /\ shift = [l \in DOMAIN prog.lines |-> <<>>]
    /\ bad = <<>>

----------------------------------------------------------------------------
(* _get_witness_locations *)

Positions  == UNION {{s} \X DOMAIN witness[s] : s \in DOMAIN witness}
Way(p)     == witness[p[1]][p[2]]
Loc(w)     == <<w.line, w.col>>
LocsOf(types) == {Loc(Way(p)) : p \in {q \in Positions : Way(q).type \in types}}

\* The assertions: a follow waypoint ends its segment, a target is a follow
\* waypoint of the last segment.
WellFormed ==
    \A p \in Positions :
        /\ Way(p).action = "follow" =>
              Way(p) = witness[p[1]][Len(witness[p[1]])]
        /\ Way(p).type = "target" =>
              Way(p).action = "follow" /\ witness[p[1]] = witness[Len(witness)]

Collect ==
    /\ phase = "collect"
    /\ phase' = IF WellFormed THEN "traverse" ELSE "crashed"
    /\ calls' = [l \in LocsOf({"call"}) |-> None]
    /\ assumptions' = [l \in LocsOf({"assumption"}) |-> None]
    /\ branchings' = [l \in LocsOf({"branching"}) |-> None]
    /\ switches' = [l \in LocsOf({"branching"}) |-> None]
    /\ target' = [l \in LocsOf({"target"}) |-> None]
    /\ UNCHANGED <<input, content, node, cursor, text>>

----------------------------------------------------------------------------
(* traverse_AST visits one child cursor. *)

\* d[key] = value for every key of d that is in keys.
Store(d, keys, value) == [l \in DOMAIN d |-> IF l \in keys THEN value ELSE d[l]]

\* Keys a node that starts (for calls: ends) at loc is looked up with: the
\* exact one always, the one without a column while it has no value.
Keys(d, loc) ==
    {loc} \cup {z \in DOMAIN d : z = <<loc[1], 0>> /\ d[z] = None}

VisitCall(n) ==
    calls' = IF Kind(n) = "call"
             THEN Store(calls, Keys(calls, Plus(End(n), -1)), Start(n))
             ELSE calls

VisitAssumption(n) ==
    LET block == Kind(n) = "compound"
        entry == <<IF block THEN Plus(Start(n), 1) ELSE Start(n), End(n),
                   Kind(Parent(n)) # "compound" /\ ~block>>
    IN  assumptions' = IF IsStatement(n)
                       THEN Store(assumptions, Keys(assumptions, Start(n)), entry)
                       ELSE assumptions

VisitTarget(n) ==
    LET zero == <<Start(n)[1], 0>>
        hit  == \/ Start(n) \in DOMAIN target
                \/ zero \in DOMAIN target /\ target[zero] = None
        key  == IF zero \in DOMAIN target THEN zero ELSE Start(n)
    IN  target' = IF hit /\ IsExpression(n) /\ Full[n]
                  THEN Store(target, {key}, <<Start(n), End(n)>>)
                  ELSE target

\* _handle_branching for a for statement.  Its null parts are no children, so
\* the code looks at the first two tokens behind the parenthesis.
ForControl(n) ==
    LET parts  == Cardinality(Children(n))
        first  == prog.nodes[n].tokens[1]
        second == prog.nodes[n].tokens[2]
        Ctrl(m) == <<Start(m), Plus(End(m), -1), Start(n)[2]>>
    IN  IF parts # 4 /\ second.semi
        THEN <<second.start, Plus(second.end, -2), Start(n)[2]>>
        ELSE IF parts # 4 /\ first.semi THEN Ctrl(Child(n, 0)) ELSE Ctrl(Child(n, 1))

BranchInfo(n, ctrl) == <<Start(ctrl), End(ctrl), Start(n)[2]>>

\* Mutant: the control expression is always the first child.
FirstChildControl(n) == BranchInfo(n, Child(n, 0))

IsBranch(n) == Kind(n) \in {"if", "while", "do", "for"}
Control(n) ==
    CASE Kind(n) \in {"if", "while"} -> BranchInfo(n, Child(n, 0))
      [] Kind(n) = "do"              -> BranchInfo(n, Child(n, 1))
      [] Kind(n) = "for"             -> ForControl(n)

\* children[1] of a for statement with no header part at all.
NoSuchChild(n) == Kind(n) = "for" /\ Cardinality(Children(n)) < 2

\* _find_q_mark: the first question mark of the text from a to before b.
Marks(a, b) == MarksIn(prog, a, b)
First(locs) == CHOOSE p \in locs : \A q \in locs : p = q \/ Before(p, q)

VisitBranching(n) ==
    LET keys    == Keys(branchings, Start(n)) \cap DOMAIN branchings
        marks   == Marks(End(Child(n, 0)), Start(Child(n, 1)))
        q       == First(marks)
        cond    == IF Kind(Child(n, 0)) = "paren" THEN Child(Child(n, 0), 0)
                                                   ELSE Child(n, 0)
    IN  IF Kind(n) = "cond"
        THEN /\ branchings' = IF marks = {} THEN branchings
                   ELSE Store(branchings, Keys(branchings, q),
                              <<Start(cond), End(cond), q[2]>>)
             /\ UNCHANGED switches
        ELSE /\ branchings' = IF IsBranch(n) /\ keys # {}
                              THEN Store(branchings, keys, Control(n))
                              ELSE branchings
             /\ switches' = IF Kind(n) = "switch"
                            THEN Store(switches, keys, BranchInfo(n, Child(n, 0)))
                            ELSE switches

Visit ==
    /\ phase = "traverse" /\ node < Len(prog.nodes)
    /\ node' = node + 1
    /\ IF NoSuchChild(node') /\ Keys(branchings, Start(node')) \cap DOMAIN branchings # {}
       THEN phase' = "crashed" /\ UNCHANGED maps         \* IndexError
       ELSE /\ VisitCall(node') /\ VisitAssumption(node')
            /\ VisitTarget(node') /\ VisitBranching(node')
            /\ UNCHANGED phase
    /\ UNCHANGED <<input, content, cursor, text>>

EndTraversal ==
    /\ phase = "traverse" /\ node = Len(prog.nodes)
    /\ phase' = "waypoints"
    /\ UNCHANGED <<input, content, node, maps, cursor, text>>

----------------------------------------------------------------------------
(* transform: the loop over segments and waypoints. *)

Here(type) ==
    /\ phase = "waypoints" /\ seg <= Len(content) /\ way <= Len(content[seg])
    /\ content[seg][way].type = type
Waypoint == content[seg][way]
WLoc     == Loc(Waypoint)

Invalid(w) ==
    CASE w.type = "call"       -> calls[Loc(w)] = None
      [] w.type = "target"     -> target[Loc(w)] = None
      [] w.type = "assumption" -> assumptions[Loc(w)] = None
      [] w.type = "branching"  -> branchings[Loc(w)] = None
                                  /\ switches[Loc(w)] = None

NextWaypoint == way' = way + 1 /\ UNCHANGED <<phase, seg, bad>>

\* handle_invalid_location, then s_index += 1 and continue.
InvalidLocation ==
    /\ \E t \in {"call", "target", "assumption", "branching"} : Here(t)
    /\ Invalid(Waypoint)
    /\ IF checkAll
       THEN /\ bad' = Append(bad, sIndex)
            /\ sIndex' = sIndex + 1
            /\ way' = way + 1
            /\ UNCHANGED phase
       ELSE phase' = "rejected" /\ UNCHANGED <<bad, sIndex, way>>
    /\ UNCHANGED <<input, content, node, maps, seg, covered, inserts, text>>

CallWaypoint ==
    /\ Here("call") /\ ~Invalid(Waypoint)
    /\ content' = [content EXCEPT ![seg][way].line = calls[WLoc][1],
                                  ![seg][way].col  = calls[WLoc][2]]
    /\ NextWaypoint
    /\ UNCHANGED <<input, node, maps, sIndex, covered, inserts, text>>

TargetWaypoint ==
    /\ Here("target") /\ ~Invalid(Waypoint)
    /\ content' = [content EXCEPT ![seg][way].col  = target[WLoc][1][2],
                                  ![seg][way].loc2 = target[WLoc][2]]
    /\ NextWaypoint
    /\ UNCHANGED <<input, node, maps, sIndex, covered, inserts, text>>

AssumptionWaypoint ==
    /\ Here("assumption") /\ ~Invalid(Waypoint)
    /\ LET start   == assumptions[WLoc][1]
           end     == assumptions[WLoc][2]
           bracket == assumptions[WLoc][3]
           call    == CreateAssumption(Waypoint.constraint, sIndex,
                                       Waypoint.action # "avoid", bracket)
       IN  inserts' = inserts
                      \o (IF bracket THEN <<<<end[1], end[2] + 1, Brace>>>> ELSE <<>>)
                      \o <<<<start[1], start[2], call>>>>
    /\ NextWaypoint
    /\ UNCHANGED <<input, content, node, maps, sIndex, covered, text>>

BranchingWaypoint ==
    /\ Here("branching") /\ ~Invalid(Waypoint)
    /\ LET isBranch == branchings[WLoc] # None
           entry    == IF isBranch THEN branchings[WLoc] ELSE switches[WLoc]
           start    == entry[1]
           end      == entry[2]
           loc      == <<WLoc[1], entry[3]>>
           call     == IF isBranch THEN BranchCall(loc[1], loc[2])
                                   ELSE SwitchCall(loc[1], loc[2])
           close    == IF Before(end, start) THEN Close1 ELSE Close
       IN  /\ content' = IF WLoc[2] = 0
                         THEN [content EXCEPT ![seg][way].col = loc[2]]
                         ELSE content
           /\ covered' = covered \cup {loc}
           /\ inserts' = IF loc \in covered THEN inserts
                         ELSE inserts \o <<<<start[1], start[2], call>>,
                                           <<end[1], end[2] + 1, close>>>>
    /\ NextWaypoint
    /\ UNCHANGED <<input, node, maps, sIndex, text>>

\* Mutant: the segment number is not increased.
EndSegmentKeepsIndex ==
    /\ phase = "waypoints" /\ seg <= Len(content) /\ way > Len(content[seg])
    /\ seg' = seg + 1
    /\ way' = 1
    /\ UNCHANGED <<phase, input, content, node, maps, sIndex, covered, inserts, bad,
                   text>>

EndSegment ==
    /\ phase = "waypoints" /\ seg <= Len(content) /\ way > Len(content[seg])
    /\ seg' = seg + 1
    /\ way' = 1
    /\ sIndex' = sIndex + 1
    /\ UNCHANGED <<phase, input, content, node, maps, covered, inserts, bad, text>>

\* Mutant: a line number that counts from 0.
FirstDeclFromZero == IF Nodes = {} THEN 0 ELSE Start(1)[1] - 1

FirstDecl == IF Nodes = {} THEN 1 ELSE Start(1)[1]
AddLines  == IF isI THEN 1 ELSE 0

\* The end of the loop; a .i file also gets the declarations.
EndWaypoints ==
    /\ phase = "waypoints" /\ seg > Len(content)
    /\ IF checkAll /\ bad # <<>>
       THEN phase' = "rejected" /\ UNCHANGED inserts
       ELSE /\ phase' = "insert"
            /\ inserts' = IF isI THEN Append(inserts, <<FirstDecl, 1, Declarations>>)
                                 ELSE inserts
    /\ UNCHANGED <<input, content, node, maps, seg, way, sIndex, covered, bad, text>>

----------------------------------------------------------------------------
(* _insert_calls, one item at a time, in the order of the sorted list.      *)

IsNext(i) == \A j \in DOMAIN inserts : ~InsertedFirst(inserts[j], inserts[i])

InsertCall ==
    /\ phase = "insert"
    /\ \E i \in DOMAIN inserts :
          LET l     == inserts[i][1]
              col   == inserts[i][2]
              value == inserts[i][3]
          IN  /\ IsNext(i)
              /\ cLines' = [cLines EXCEPT ![l] = InsertText(@, col, value)]
              /\ shift' = [shift EXCEPT ![l] = AddShift(@, col, Width(value))]
              /\ inserts' = RemoveAt(inserts, i)
    /\ UNCHANGED <<phase, input, content, node, maps, seg, way, sIndex, covered, bad>>

----------------------------------------------------------------------------
(* _shift_witness *)

\* Mutant: a text inserted at the column itself does not count.
ShiftSumStrict(cols, col) ==
    LET Sum[i \in 0..Len(cols)] ==
            IF i = 0 THEN 0
            ELSE Sum[i - 1] + (IF col > cols[i][1] THEN cols[i][2] ELSE 0)
    IN  Sum[Len(cols)]

\* The loop over shift[line] that sums up the insertions left of col.
ShiftSum(cols, col) ==
    LET Sum[i \in 0..Len(cols)] ==
            IF i = 0 THEN 0
            ELSE Sum[i - 1] + (IF col >= cols[i][1] THEN cols[i][2] ELSE 0)
    IN  Sum[Len(cols)]

\* The same loop for location2: the column grows inside the loop.
ShiftEnd(cols, col) ==
    LET Step[i \in 0..Len(cols)] ==      \* <<column, add>> after i turns
            IF i = 0 THEN <<col, 0>>
            ELSE LET c   == Step[i - 1][1]
                     add == Step[i - 1][2] + (IF c >= cols[i][1] THEN cols[i][2] ELSE 0)
                 IN  <<c + add, add>>
    IN  Step[Len(cols)][1]

ShiftWaypoint(w) ==
    IF w.type \in {"assumption", "branching"} THEN w
    ELSE [w EXCEPT !.col = @ + ShiftSum(shift[w.line], @), !.line = @ + AddLines]

ShiftTargetEnd(w) ==
    IF w.loc2 = None THEN w
    ELSE [w EXCEPT !.loc2 = <<@[1], ShiftEnd(shift[@[1]], @[2])>>]

ShiftWitness ==
    /\ phase = "insert" /\ inserts = <<>>
    /\ LET moved == [s \in DOMAIN content |->
                        [i \in DOMAIN content[s] |-> ShiftWaypoint(content[s][i])]]
           last  == Len(content)
       IN  content' = [moved EXCEPT ![last][Len(content[last])] = ShiftTargetEnd(@)]
    /\ phase' = "done"
    /\ UNCHANGED <<input, node, maps, cursor, text>>

\* Mutant: the columns are taken in the order in which the texts were put in.
InOrderOfInsertion(cols) == cols

\* sorted(): the columns are distinct.
InOrderOfColumns(cols) ==
    [k \in DOMAIN cols |->
        cols[CHOOSE i \in DOMAIN cols :
                Cardinality({j \in DOMAIN cols : cols[j][1] <= cols[i][1]}) = k]]

\* The loop of shift_back over the sorted columns.
MoveBack(cols, col) ==
    LET Back[i \in 0..Len(cols)] ==
            IF i = 0 THEN col
            ELSE Back[i - 1] - (IF Back[i - 1] > cols[i][1] THEN cols[i][2] ELSE 0)
    IN  Back[Len(cols)]

\* shift_back: the writer of witnesses takes a location that the validator saw
\* back to the program the user gave.
ShiftBack(loc) ==
    LET line == loc[1] - AddLines
    IN  <<line, MoveBack(InOrderOfColumns(shift[line]), loc[2])>>

----------------------------------------------------------------------------

Next ==
    \/ Collect
    \/ Visit \/ EndTraversal
    \/ InvalidLocation \/ CallWaypoint \/ TargetWaypoint \/ AssumptionWaypoint
    \/ BranchingWaypoint \/ EndSegment \/ EndWaypoints
    \/ InsertCall \/ ShiftWitness

Spec == Init /\ [][Next]_vars

----------------------------------------------------------------------------
(* Properties.  They compare the output with the program's own tree: a node *)
(* has a role ("stmt" in a block, "body" of a control statement, "part" of  *)
(* another) and, if it branches, the extent ctrl of its control expression. *)

TypeOK ==
    /\ phase \in {"collect", "traverse", "waypoints", "insert", "done",
                  "rejected", "crashed"}
    /\ isI \in BOOLEAN /\ checkAll \in BOOLEAN
    /\ node \in 0..Len(prog.nodes)
    /\ seg \in 1..Len(witness) + 1
    /\ sIndex \in Nat
    /\ DOMAIN content = DOMAIN witness
    /\ \A p \in Positions :
          /\ content[p[1]][p[2]].type = Way(p).type
          /\ content[p[1]][p[2]].col \in Nat
    /\ \A i \in DOMAIN inserts :
          inserts[i][1] \in DOMAIN prog.lines /\ inserts[i][2] \in Nat \ {0}
    /\ \A i \in DOMAIN bad : bad[i] \in Nat

\* Index in the output line of a character of the source.
IndexOf(l, c) == CHOOSE k \in DOMAIN cLines[l] : cLines[l][k].at = <<l, c>>

(***************************************************************************)
(* At any time of the insertion, _shift tells where every character of the *)
(* source is now: none is lost, and each has moved by the length of what   *)
(* was recorded at its column or left of it.                               *)
(***************************************************************************)
ShiftsMatchText ==
    \A l \in DOMAIN prog.lines : \A c \in DOMAIN prog.lines[l] :
        LET k == c + ShiftSum(shift[l], c)
        IN  k \in DOMAIN cLines[l] /\ cLines[l][k].at = <<l, c>>

\* Line and column a reader of the output finds a character of the source at:
\* the declarations end with a newline.
Place(loc) ==
    LET k       == IndexOf(loc[1], loc[2])
        ends    == {i \in DOMAIN cLines[loc[1]] :
                        cLines[loc[1]][i].new = Declarations}
        newline == IF ends = {} THEN 0 ELSE CHOOSE i \in ends : \A j \in ends : j <= i
    IN  <<IF isI /\ loc[1] >= FirstDecl THEN loc[1] + 1 ELSE loc[1],
          IF k > newline THEN k - newline ELSE k>>

\* Does a waypoint with location w name the position loc?
Names(w, loc) == w.line = loc[1] /\ w.col \in {0, loc[2]}

\* The nodes a call or target waypoint may be about.
Meant(w) ==
    {n \in Nodes : \/ w.type = "call" /\ Kind(n) = "call"
                     /\ Names(w, Plus(End(n), -1))
                   \/ w.type = "target" /\ IsExpression(n) /\ Full[n]
                     /\ Names(w, Start(n))}

(***************************************************************************)
(* In the written witness, function_enter, function_return and target      *)
(* waypoints name the first character of the call or expression they named *)
(* in the original program.  (Not on the line of the first declaration of  *)
(* a .i file.)                                                             *)
(***************************************************************************)
CallsStayOnCode ==
    phase = "done" =>
        \A p \in Positions : Way(p).type \in {"call", "target"} =>
            \E n \in Meant(Way(p)) :
                ~(isI /\ Start(n)[1] = FirstDecl) =>
                    Loc(content[p[1]][p[2]]) = Place(Start(n))

(***************************************************************************)
(* A location shifted there and back is the original one: the calls and    *)
(* the error that the validator meets in the changed text are written into *)
(* a new witness for the program as it was.  (Not on the line of the first *)
(* declaration of a .i file.)                                              *)
(***************************************************************************)
BackAtOriginal ==
    phase = "done" =>
        \A l \in FirstDecl..Len(prog.lines) : \A c \in DOMAIN prog.lines[l] :
            ~(isI /\ l = FirstDecl) => ShiftBack(Place(<<l, c>>)) = <<l, c>>

\* The values inserted directly before, and directly behind, an index.
NewBefore(l, k) ==
    {cLines[l][i].new : i \in {j \in 1..k - 1 :
        \A m \in j..k - 1 : cLines[l][m].new # None}}
NewBehind(l, k) ==
    {cLines[l][i].new : i \in {j \in k + 1..Len(cLines[l]) :
        \A m \in k + 1..j : cLines[l][m].new # None}}

Guarded(n, w, s) ==
    LET l == Start(n)[1]
        k == IndexOf(l, Start(n)[2])
        call(bracket) == CreateAssumption(w.constraint, s - 1,
                                          w.action # "avoid", bracket)
    IN  IF Kind(n) = "compound"
        THEN call(FALSE) \in NewBehind(l, k)
        ELSE /\ call(prog.nodes[n].role = "body") \in NewBefore(l, k)
             /\ prog.nodes[n].role = "body" =>
                   Brace \in NewBehind(End(n)[1], IndexOf(End(n)[1], End(n)[2]))

(***************************************************************************)
(* The constraint of an assumption waypoint is checked, under the number   *)
(* of its segment, directly before the statement it names; the body of a   *)
(* control statement gets braces that end behind it.                       *)
(***************************************************************************)
AssumptionsGuardStatements ==
    phase = "done" =>
        \A p \in Positions : Way(p).type = "assumption" =>
            \E n \in Nodes :
                /\ prog.nodes[n].role \in {"stmt", "body"}
                /\ Names(Way(p), Start(n))
                /\ Guarded(n, Way(p), p[1])

\* Exactly one call, in front of the control expression; it is closed before
\* anything but blanks and parentheses follows that expression.  Where a for
\* statement has no condition the call gets one.
Wrapped(n, w) ==
    LET from  == prog.nodes[n].ctrl[1]
        to    == prog.nodes[n].ctrl[2]
        value == IF Kind(n) = "switch" THEN SwitchCall(w.line, w.col)
                                       ELSE BranchCall(w.line, w.col)
        close == IF from = to THEN Close1 ELSE Close
    IN  /\ value \in NewBefore(from[1], IndexOf(from[1], from[2]))
        /\ Cardinality({i \in DOMAIN cLines[from[1]] : cLines[from[1]][i].new = value})
             = Width(value)
        /\ \E i \in DOMAIN cLines[to[1]] :
              /\ cLines[to[1]][i].new = close
              /\ \A c \in DOMAIN prog.lines[to[1]] :
                    IF c < to[2] THEN IndexOf(to[1], c) < i
                    ELSE IndexOf(to[1], c) < i => prog.lines[to[1]][c] \in {" ", ")"}
              /\ from = to => \A j \in DOMAIN cLines[to[1]] :
                                cLines[to[1]][j].new = value => j < i

(***************************************************************************)
(* The comment of traverse_AST: for branching waypoints we find the        *)
(* corresponding control expression.  Every branching waypoint has its     *)
(* control expression wrapped in one validator call, however often the     *)
(* witness names it, with a column or without.                             *)
(***************************************************************************)
BranchesWrapControl ==
    phase = "done" =>
        \A p \in Positions : Way(p).type = "branching" =>
            \E n \in Nodes :
                /\ prog.nodes[n].ctrl # None
                /\ \E loc \in PlacesIn(prog, n) : Names(Way(p), loc)
                /\ Wrapped(n, content[p[1]][p[2]])

(***************************************************************************)
(* "Shift end location of target": location2 stays the end of the target   *)
(* expression, whose last character is directly left of it.                *)
(***************************************************************************)
TargetEndShifted ==
    phase = "done" =>
        \A p \in Positions : Way(p).type = "target" =>
            \E n \in Meant(Way(p)) :
                content[p[1]][p[2]].loc2 = Plus(Place(Plus(End(n), -1)), 1)

(***************************************************************************)
(* "Found invalid locations in segments": the numbers reported are those   *)
(* of the segments that hold a waypoint with an invalid location.          *)
(***************************************************************************)
BadSegmentsNumbered ==
    phase = "rejected" /\ checkAll =>
        \A i \in DOMAIN bad :
            \E p \in Positions : p[1] = bad[i] + 1 /\ Invalid(Way(p))
=============================================================================
