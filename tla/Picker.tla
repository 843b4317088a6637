------------------------------- MODULE Picker -------------------------------
(***************************************************************************)
(* What a folder's backup leaves out: the rules kept with the set, the      *)
(* terminal's picker over a tree of checkboxes, with its incremental       *)
(* states and totals, and the panel's switches, one path at a time.        *)
(*                                                                         *)
(* A path is the sequence of its names, and a name is its place among its  *)
(* siblings.  The picker's tree is known by its leaves, files and empty    *)
(* directories alike; << >> is its root, and a total is kept as the set of *)
(* the leaves it counts.                                                   *)
(***************************************************************************)
EXTENDS Integers, Sequences, FiniteSets

CONSTANTS Width, Depth,            \* of the folder on disk
          MaxLeaves, MaxHeight, MaxRules, MaxEdits \* bounds for TLC

ASSUME PickerAssumption == {Width, Depth, MaxLeaves, MaxHeight, MaxRules, MaxEdits} \subseteq Nat

VARIABLES
    excludes,             \* the set's rules, in sets.json
    picking,              \* whether the picker is open
    leaves, check, selected, expanded, \* its tree
    cursor, offset, height,
    want,                 \* history: the leaves the person has left checked
    edits

boxVars == <<leaves, check, selected, expanded>>
viewVars == <<cursor, offset, height>>
pickVars == <<excludes, picking, boxVars, viewVars, want, edits>>

KeyPath == UNION {[1..n -> 1..Width] : n \in 1..Depth}
\* p is q, or something inside q.
Under(p, q) == Len(q) <= Len(p) /\ \A i \in DOMAIN q : p[i] = q[i]
\* Set.Excluded and excludedBy.
Covered(rules, p) == \E r \in rules : Under(p, r)
\* No rule says what another says already.
Short(rules) == \A p, q \in rules : Under(p, q) => p = q
\* What may be in a folder: nothing is a file and a directory at once.
Folders == {d \in SUBSET KeyPath : Short(d) /\ Cardinality(d) <= MaxLeaves}

PickInit ==
    /\ excludes \in {r \in SUBSET KeyPath : Short(r) /\ Cardinality(r) <= MaxRules}
    /\ picking = FALSE
    /\ leaves = {} /\ check = << >> /\ selected = << >> /\ expanded = {}
    /\ cursor = 0 /\ offset = 0 /\ height \in 1..MaxHeight
    /\ want = {} /\ edits = 0

(***************************************************************************)
(* The tree.                                                               *)
(***************************************************************************)
Nodes(d) == {<< >>} \cup {n \in KeyPath : \E p \in d : Under(p, n)}
Kids(nodes, n) == {m \in nodes : Len(m) = Len(n) + 1 /\ Under(m, n)}
Leaves(d, n) == {p \in d : Under(p, n)}
Sum(total, kids) == UNION {total[k] : k \in kids}

\* The state of a directory with these children.
Derived(c, kids) ==
    IF \A k \in kids : c[k] = "on" THEN "on"
    ELSE IF \A k \in kids : c[k] = "off" THEN "off" ELSE "partial"

\* ApplyExcludes on a tree that BuildTree has checked throughout.
OpenedWith(d, rules) ==
    LET nodes == Nodes(d)
        c[n \in nodes] == IF Kids(nodes, n) = {} THEN IF Covered(rules, n) THEN "off" ELSE "on"
                          ELSE Derived(c, Kids(nodes, n))
    IN c
SelectedOf(d, c) ==
    LET nodes == Nodes(d)
        s[n \in nodes] == IF Kids(nodes, n) = {} THEN {p \in d : p = n /\ c[n] = "on"}
                          ELSE Sum(s, Kids(nodes, n))
    IN s

\* setSubtree.
Filled(n, state) ==
    [check    |-> [m \in DOMAIN check |-> IF Under(m, n) THEN state ELSE check[m]],
     selected |-> [m \in DOMAIN check |-> IF ~Under(m, n) THEN selected[m]
                                          ELSE IF state = "on" THEN Leaves(leaves, m) ELSE {}]]
\* Slip: only the directory the entry is in is looked at again.
RecalculatedParent(n, t) ==
    LET a == SubSeq(n, 1, Len(n) - 1)
    IN IF n = << >> THEN t
       ELSE [check    |-> [t.check EXCEPT ![a] = Derived(t.check, Kids(DOMAIN check, a))],
             selected |-> [t.selected EXCEPT ![a] = Sum(t.selected, Kids(DOMAIN check, a))]]
\* recalcAncestors, from the parent to the root.
Recalculated(n, t) ==
    LET up[k \in 0..Len(n)] ==
          IF k = Len(n) THEN t
          ELSE LET a == SubSeq(n, 1, k)
               IN [check    |-> [up[k + 1].check EXCEPT ![a] = Derived(up[k + 1].check, Kids(DOMAIN check, a))],
                   selected |-> [up[k + 1].selected EXCEPT ![a] = Sum(up[k + 1].selected, Kids(DOMAIN check, a))]]
    IN up[0]

\* ComputeExcludes: unchecked whole, below directories that are partly checked.
ComputeExcludes ==
    {n \in DOMAIN check \ {<< >>} :
        check[n] = "off" /\ \A k \in 1..Len(n) - 1 : check[SubSeq(n, 1, k)] = "partial"}

(***************************************************************************)
(* The rows on the screen.                                                 *)
(***************************************************************************)
\* The rows of VisibleRows, with these directories open, and their order.
Shown(open) == {n \in DOMAIN check \ {<< >>} : \A k \in 1..Len(n) - 1 : SubSeq(n, 1, k) \in open}
Before(m, n) ==
    \/ m # n /\ Under(n, m)
    \/ \E i \in DOMAIN m \cap DOMAIN n : m[i] < n[i] /\ \A j \in 1..i - 1 : m[j] = n[j]
RowOf(n, rows) == Cardinality({m \in rows : Before(m, n)})
Rows == Shown(expanded)
Current == LET rows == Rows IN CHOOSE n \in rows : RowOf(n, rows) = cursor

\* ensureVisible.
EnsureVisible(cur, top, h, rows) ==
    LET near == IF cur < top THEN cur ELSE IF cur >= top + h THEN cur - h + 1 ELSE top
        last == IF rows > h THEN rows - h ELSE 0
    IN IF near > last THEN last ELSE near
LooksAt(cur, h, rows) ==
    /\ cursor' = cur /\ height' = h
    /\ offset' = IF rows = 0 THEN 0 ELSE EnsureVisible(cur, offset, h, rows)
\* setCursor keeps to the rows there are.
Clamped(i, rows) == IF i < 0 THEN 0 ELSE IF i >= rows THEN rows - 1 ELSE i

(***************************************************************************)
(* The picker: `r2b add' opens it on no rules, `r2b edit' on the set's.    *)
(***************************************************************************)
OpensPicker(d) ==
    /\ ~picking /\ picking' = TRUE /\ edits < MaxEdits /\ edits' = edits + 1
    /\ leaves' = d /\ check' = OpenedWith(d, excludes) /\ selected' = SelectedOf(d, check')
    /\ expanded' = Nodes(d) \ d
    /\ cursor' = 0 /\ offset' = 0
    /\ want' = {p \in d : ~Covered(excludes, p)}
    /\ UNCHANGED <<excludes, height>>

\* The space bar. What is partly checked becomes checked.
Toggle ==
    /\ picking /\ Rows # {}
    /\ LET n == Current
           target == IF check[n] = "on" THEN "off" ELSE "on"
           t == Recalculated(n, Filled(n, target))
       IN /\ check' = t.check /\ selected' = t.selected
          /\ want' = IF Leaves(leaves, n) \subseteq want THEN want \ Leaves(leaves, n)
                     ELSE want \cup Leaves(leaves, n)
    /\ UNCHANGED <<excludes, picking, leaves, expanded, viewVars, edits>>
\* The keys a and n.
SetAll(state) ==
    /\ picking
    /\ check' = Filled(<< >>, state).check /\ selected' = Filled(<< >>, state).selected
    /\ want' = IF state = "on" THEN leaves ELSE {}
    /\ UNCHANGED <<excludes, picking, leaves, expanded, viewVars, edits>>

StaysPicking == UNCHANGED <<excludes, picking, leaves, check, selected, want, edits>>
MovesCursor ==
    /\ picking /\ StaysPicking /\ UNCHANGED expanded
    /\ LET rows == Cardinality(Rows)
       IN rows > 0 /\ \E i \in {Clamped(cursor + d, rows) : d \in {-1, 1, -height, height, -rows, rows}} :
            LooksAt(i, height, rows)
\* collapseCurrent: close the directory, or go to the one above.
Collapses ==
    /\ picking /\ Rows # {} /\ StaysPicking
    /\ LET n == Current
           up == SubSeq(n, 1, Len(n) - 1)
           rows == Rows
       IN \/ /\ n \in expanded /\ expanded' = expanded \ {n}
             /\ LooksAt(cursor, height, Cardinality(Shown(expanded')))
          \/ /\ n \notin expanded /\ up # << >> /\ UNCHANGED expanded
             /\ LooksAt(RowOf(up, rows), height, Cardinality(rows))
Expands ==
    /\ picking /\ Rows # {} /\ StaysPicking
    /\ LET n == Current
       IN Kids(DOMAIN check, n) # {} /\ n \notin expanded /\ expanded' = expanded \cup {n}
    /\ LooksAt(cursor, height, Cardinality(Shown(expanded')))
Resized ==
    /\ picking /\ StaysPicking /\ UNCHANGED expanded
    /\ \E h \in 1..MaxHeight \ {height} : LooksAt(cursor, h, Cardinality(Rows))

Closes ==
    /\ picking /\ picking' = FALSE /\ leaves' = {} /\ check' = << >>
    /\ selected' = << >> /\ expanded' = {} /\ cursor' = 0 /\ offset' = 0 /\ want' = {}
    /\ UNCHANGED <<height, edits>>
Cancels == Closes /\ UNCHANGED excludes
\* finishEdit. A list that is as it was is not saved again.
Accepts ==
    /\ Closes
    /\ excludes' = ComputeExcludes

(***************************************************************************)
(* The panel's switches, `edit --exclude' and `edit --include'.            *)
(***************************************************************************)
\* toggleExclude.
Toggled(rules, p, gone) == {r \in rules : ~Under(r, p)} \cup IF gone THEN {p} ELSE {}
Switch(p, gone) ==
    /\ ~picking /\ edits < MaxEdits /\ edits' = edits + 1
    /\ \A r \in excludes : Under(p, r) => r = p \* ruleAbove
    /\ excludes' = Toggled(excludes, p, gone)
    /\ UNCHANGED <<picking, boxVars, viewVars, want>>

PickNext ==
    \/ \E d \in Folders : OpensPicker(d)
    \/ Toggle \/ MovesCursor \/ Collapses \/ Expands \/ Resized \/ Cancels \/ Accepts
    \/ \E s \in {"on", "off"} : SetAll(s)
    \/ \E p \in KeyPath, gone \in BOOLEAN : Switch(p, gone)
PickSpec == PickInit /\ [][PickNext]_pickVars

(***************************************************************************)
(* What holds.                                                             *)
(***************************************************************************)
\* Of these shapes; and the row the space bar acts on is on the screen, whatever was
\* folded up and however the window was resized, and no rule says what another says.
PickTypeOK ==
    /\ excludes \subseteq KeyPath /\ Short(excludes) /\ picking \in BOOLEAN
    /\ leaves \in Folders /\ expanded \subseteq Nodes(leaves)
    /\ picking => /\ check \in [Nodes(leaves) -> {"on", "off", "partial"}]
                  /\ selected \in [Nodes(leaves) -> SUBSET leaves]
    /\ want \subseteq leaves /\ edits \in 0..MaxEdits
    /\ cursor \in Nat /\ offset \in Nat /\ height \in 1..MaxHeight
    /\ picking /\ Rows # {} => cursor < Cardinality(Rows) /\ offset <= cursor /\ cursor < offset + height

\* After any keys, each box and each total, kept up to date by the least work,
\* says what the person's choice of leaves says; and the short list that would
\* be saved leaves out, by the rule backups go by, just the leaves they
\* unchecked.
PickerAgrees ==
    LET rules == ComputeExcludes
    IN picking /\ leaves # {} =>
        /\ \A n \in DOMAIN check :
            LET in == Leaves(leaves, n) \cap want
            IN /\ selected[n] = in
               /\ check[n] = IF in = Leaves(leaves, n) THEN "on"
                             ELSE IF in = {} THEN "off" ELSE "partial"
        /\ \A p \in leaves : Covered(rules, p) = (p \notin want)
=============================================================================
