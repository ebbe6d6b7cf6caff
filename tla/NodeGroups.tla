----------------------------- MODULE NodeGroups -----------------------------
(***************************************************************************)
(* The autoscaler command (view/autoscaler.go): one ConfigMap, read once,  *)
(* that the cluster autoscaler rewrites as a whole, as text before its     *)
(* version 1.30 and as YAML since. The text is a list of lines here, each  *)
(* its label and its value; the YAML is what Unmarshal makes of it. The    *)
(* order of rows is Table's business, and the text has no LAST-CHANGE.     *)
(***************************************************************************)
EXTENDS Integers, Sequences, Lists

CONSTANTS
  Names,        \* the node groups, in the autoscaler's order
  Reports,      \* what may be known of a group: section -> value, or None
  Unread,       \* the ConfigMap not read yet
  Failed,       \* it could not be read, or has no status
  None,         \* nil
  MaxChanges    \* bound: steps of the autoscaler

VARIABLES
  cluster,   \* [version, wide, groups, map, changes]: the autoscaler's state, and the ConfigMap
  lists,     \* what the command read
  past       \* history of the ConfigMap: the state that was last written

vars == <<cluster, lists, past>>

(* A value of Health stands for its status and counts. The autoscaler knows *)
(* nothing until it runs (wide is None).                                    *)
Sections == {"Health", "ScaleUp", "ScaleDown"}
Unknown == [l \in Sections |-> None]

-----------------------------------------------------------------------------
(* External: the two formats. *)

Line(label, value) == [label |-> label, value |-> value]

SectionLines(g) ==
  LET shown == Kept(<<"Health", "ScaleUp", "ScaleDown">>, {l \in Sections : g[l] # None})
  IN  FlattenSeq([i \in DOMAIN shown |-> <<Line(shown[i], g[shown[i]]), Line("LastProbeTime", None)>>])

Text(s) ==
  IF s.wide = None THEN <<Line("Initializing", None)>>
  ELSE <<Line("Cluster-wide:", None)>> \o SectionLines(s.wide) \o <<Line("NodeGroups:", None)>>
       \o FlattenSeq([i \in DOMAIN s.groups |->
            <<Line("Name", s.groups[i].name)>> \o SectionLines(s.groups[i].has)])

(* The text is no YAML: Unmarshal fails on it. *)
Document(version, s) ==
  IF version = "text" THEN [yaml |-> FALSE, lines |-> Text(s), body |-> None]
  ELSE [yaml |-> TRUE, lines |-> <<>>, body |-> s]

-----------------------------------------------------------------------------
(* The code. *)

(* The last line with a label, 0 without. *)
Heading(lines, label) ==
  CHOOSE i \in 0..Len(lines) :
    /\ i # 0 => lines[i].label = label
    /\ \A j \in (i + 1)..Len(lines) : lines[j].label # label

(* What the lines from i up to j say of each section: a later one wins. *)
Fields(lines, i, j) ==
  [l \in Sections |->
    LET at == {k \in i..j : lines[k].label = l}
    IN  IF at = {} THEN None ELSE lines[CHOOSE k \in at : \A m \in at : m <= k].value]

(* A slip for the mutants: cur is not reset, and a group without a section  *)
(* has its predecessor's.                                                   *)
GroupLinesCarried(lines, first, i) == first

(* parseLegacyNodeGroups: a group's lines are those from its Name to the    *)
(* next; first is where the groups begin.                                   *)
GroupLines(lines, first, i) == i

NextName(lines, i) ==
  CHOOSE j \in i..Len(lines) :
    /\ j # Len(lines) => lines[j + 1].label = "Name"
    /\ \A k \in (i + 1)..j : lines[k].label # "Name"

LegacyGroups(lines) ==
  LET start == Heading(lines, "NodeGroups:")
      names == Kept([k \in DOMAIN lines |-> k],
                    {k \in DOMAIN lines : start # 0 /\ k > start /\ lines[k].label = "Name"})
  IN  [n \in DOMAIN names |->
        [name |-> lines[names[n]].value,
         has |-> Fields(lines, GroupLines(lines, start + 1, names[n]), NextName(lines, names[n]))]]

(* parseLegacyClusterWide. *)
LegacyWide(lines) ==
  LET start == Heading(lines, "Cluster-wide:")
      groups == Heading(lines, "NodeGroups:")
  IN  IF start = 0 THEN Unknown
      ELSE Fields(lines, start, IF groups = 0 THEN Len(lines) ELSE groups - 1)

(* parseAutoscalerStatus: what is printed; verbatim is a status echoed.     *)
Parsed(d) ==
  IF d.yaml
    THEN [verbatim |-> FALSE, wide |-> IF d.body.wide = None THEN Unknown ELSE d.body.wide,
          groups |-> d.body.groups]
  ELSE LET wide == LegacyWide(d.lines)
           groups == LegacyGroups(d.lines)
       IN  [verbatim |-> wide["Health"] = None /\ groups = <<>>, wide |-> wide, groups |-> groups]

-----------------------------------------------------------------------------
State == [wide |-> cluster.wide, groups |-> cluster.groups]

Init ==
  /\ \E v \in {"text", "yaml"} :
       cluster = [version |-> v, wide |-> None, groups |-> <<>>, map |-> None, changes |-> 0]
  /\ lists = Unread
  /\ past = None

World(c) ==
  /\ lists = Unread /\ cluster.changes < MaxChanges
  /\ cluster' = [c EXCEPT !.changes = cluster.changes + 1]
  /\ UNCHANGED lists

(* A round of the autoscaler: it looks at its groups, of which some have    *)
(* nothing to report on a section, and writes the whole status.             *)
Sync(wide, groups) ==
  LET s == [wide |-> wide, groups |-> groups] IN
    /\ World([cluster EXCEPT !.wide = wide, !.groups = groups, !.map = Document(cluster.version, s)])
    /\ past' = s

Round ==
  \E n \in 0..Len(Names), w \in {u \in Reports : u["Health"] # None} :
    \E u \in [1..n -> Reports] : Sync(w, [i \in 1..n |-> [name |-> Names[i], has |-> u[i]]])

Starts == cluster.wide = None /\ Sync(None, <<>>)

(* An upgrade or a rollback: the status stays until the next round. *)
Upgrade ==
  /\ World([cluster EXCEPT !.version = IF @ = "text" THEN "yaml" ELSE "text"])
  /\ UNCHANGED past

(* Autoscaler: one Get; a ConfigMap that is not there is an error. *)
Get ==
  /\ lists = Unread
  /\ lists' \in {IF cluster.map = None THEN Failed ELSE cluster.map, Failed}
  /\ UNCHANGED <<cluster, past>>

Over == lists # Unread /\ UNCHANGED vars

Next == Round \/ Starts \/ Upgrade \/ Get \/ Over

Spec == Init /\ [][Next]_vars

-----------------------------------------------------------------------------
(* Properties. *)

TypeOK ==
  /\ cluster.version \in {"text", "yaml"} /\ cluster.changes \in 0..MaxChanges
  /\ (cluster.map = None) = (past = None)

(* Either format tells the same: whichever the autoscaler writes, and       *)
(* across an upgrade, the cluster's line and each group's row hold exactly  *)
(* what the autoscaler last wrote of it, with a dash for what it did not,   *)
(* and never what it wrote of another; a status is echoed only when there   *)
(* is nothing in it yet.                                                    *)
FormatsAgree ==
  lists \notin {Unread, Failed} =>
    LET p == Parsed(lists) IN
      IF p.verbatim THEN past.wide = None
      ELSE /\ p.wide = (IF past.wide = None THEN Unknown ELSE past.wide)
           /\ p.groups = past.groups
=============================================================================
