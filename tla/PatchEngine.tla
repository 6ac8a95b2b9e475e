---------------------------- MODULE PatchEngine ----------------------------
(***************************************************************************)
(* safety/patch_engine.py: the hunks of one file are searched and replaced *)
(* one after the other in its text (apply_hunks), and the result is written*)
(* in the file's newline style (atomic_write_file).  Texts and files are   *)
(* sequences of characters; a Windows newline is two of them, Cr and Lf.   *)
(***************************************************************************)
EXTENDS Naturals, Sequences, FiniteSets, SequencesExt

CONSTANTS
  Symbols,            \* the characters
  Cr, Lf,             \* carriage return and line feed, among others
  NoFile,             \* "there is no such file"
  Disks,              \* what the file may contain at first
  Hunks,              \* the hunks a model may propose
  MaxHunks            \* max_hunks_per_file

ASSUME PatchAssumption ==
  /\ {Cr, Lf} \subseteq Symbols /\ Cr # Lf
  /\ NoFile \notin Seq(Symbols) /\ Disks \subseteq Seq(Symbols) \cup {NoFile}
  /\ \A h \in Hunks : {h.old, h.new} \subseteq Seq(Symbols)
  /\ MaxHunks \in Nat \ {0}

VARIABLES original, disk, text, hunks, step

peVars == <<original, disk, text, hunks, step>>

IsNew == original = NoFile

\* A Windows newline begins at i.
PairAt(s, i) == i < Len(s) /\ s[i] = Cr /\ s[i + 1] = Lf

HasPair(s) == \E i \in 1..Len(s) : PairAt(s, i)

\* read_text() turns both "\r\n" and a "\r" of its own into "\n".
UnixAt(s, i) == IF PairAt(s, i) THEN <<>> ELSE IF s[i] = Cr THEN <<Lf>> ELSE <<s[i]>>

Unix(raw) == FlattenSeq([i \in 1..Len(raw) |-> UnixAt(raw, i)])

\* content.replace("\r\n", "\n"), which leaves a "\r" of its own alone ...
FoldAt(s, i) == IF PairAt(s, i) THEN <<>> ELSE <<s[i]>>

Fold(s) == FlattenSeq([i \in 1..Len(s) |-> FoldAt(s, i)])

\* ... and .replace("\n", "\r\n")
WindowsAt(s, i) == IF s[i] = Lf THEN <<Cr, Lf>> ELSE <<s[i]>>

Windows(s) == FlattenSeq([i \in 1..Len(s) |-> WindowsAt(s, i)])

\* Mutant: the style of the file is not looked at.
AlwaysFold(s, like) == Fold(s)

\* What is written has Windows newlines if the file that is replaced has any.
InStyle(s, like) == IF like # NoFile /\ HasPair(like) THEN Windows(Fold(s)) ELSE Fold(s)

PatchInit ==
  /\ original \in Disks /\ disk = original
  /\ text = IF IsNew THEN <<>> ELSE Unix(original)
  /\ hunks = <<>> /\ step = "hunks"

OccursAt(old, new, i) == SubSeq(new, i, i + Len(old) - 1) = old
Occurrences(old, s) == {i \in 1..(Len(s) - Len(old) + 1) : OccursAt(old, s, i)}

\* str.find from position i
Finds(old, s, i) == {j \in Occurrences(old, s) : j >= i}

\* Mutant: the first match is taken.
LocateFirst(old, s) ==
  LET found == Finds(old, s, 1)
  IN IF found = {} THEN {} ELSE {Min(found)}

\* _locate_unique_match: the first occurrence, unless there is none or a further
\* one behind its end.
LocateUnique(old, s) ==
  LET found == Finds(old, s, 1)
  IN IF found = {} \/ Finds(old, s, Min(found) + Len(old)) # {} THEN {} ELSE {Min(found)}

Replaced(s, i, h) == SubSeq(s, 1, i - 1) \o h.new \o SubSeq(s, i + Len(h.old), Len(s))

CreateFile(h) ==
  /\ step = "hunks" /\ IsNew /\ hunks = <<>>
  /\ h.old = <<>> /\ h.new # <<>>
  /\ text' = h.new /\ hunks' = <<h>>
  /\ UNCHANGED <<original, disk, step>>

Editable == ~IsNew \/ hunks # <<>>

ApplyHunk(h) ==
  /\ step = "hunks" /\ Editable /\ Len(hunks) < MaxHunks
  /\ h.old # <<>> /\ h.old # h.new
  /\ \E i \in LocateUnique(h.old, text) : text' = Replaced(text, i, h)
  /\ hunks' = Append(hunks, h)
  /\ UNCHANGED <<original, disk, step>>

RejectHunk(h) ==
  /\ step = "hunks"
  /\ \/ ~Editable /\ (h.old # <<>> \/ h.new = <<>>)
     \/ Editable /\ (h.old = <<>> \/ h.old = h.new \/ LocateUnique(h.old, text) = {})
  /\ step' = "rejected"
  /\ UNCHANGED <<original, disk, text, hunks>>

\* No hunks, or hunks that undo each other.
NoChange == hunks = <<>> \/ (~IsNew /\ text = Unix(original))

RejectPatch ==
  /\ step = "hunks" /\ NoChange
  /\ step' = "rejected"
  /\ UNCHANGED <<original, disk, text, hunks>>

WriteFile ==
  /\ step = "hunks" /\ ~NoChange
  /\ disk' = InStyle(text, original) /\ step' = "written"
  /\ UNCHANGED <<original, text, hunks>>

PatchNext ==
  \/ \E h \in Hunks : CreateFile(h) \/ ApplyHunk(h) \/ RejectHunk(h)
  \/ RejectPatch \/ WriteFile

PatchSpec == PatchInit /\ [][PatchNext]_peVars

-----------------------------------------------------------------------------
\* Properties.

\* The files that may come of replacing one hunk in place, by definition: the characters
\* before and after it are kept, and no other place, apart from it, has the old text.
Edits(raw, h, like) ==
  LET Old == InStyle(h.old, like)
      places == {i \in 1..(Len(raw) - Len(Old) + 1) :
                   SubSeq(raw, i, i + Len(Old) - 1) = Old}
  IN IF \E i, j \in places : i + Len(Old) <= j THEN {}
     ELSE {SubSeq(raw, 1, i - 1) \o InStyle(h.new, like)
             \o SubSeq(raw, i + Len(Old), Len(raw)) : i \in places}

\* ... and of several, one after the other.
EditsOfAll(first, hs, like) ==
  FoldLeft(LAMBDA results, h : UNION {Edits(raw, h, like) : raw \in results}, first, hs)

\* Line feeds with and without a carriage return before them, or one that stands alone.
Mixed(raw) ==
  \/ \E i \in 1..Len(raw) : raw[i] = Cr /\ ~PairAt(raw, i)
  \/ /\ HasPair(raw)
     /\ \E i \in 1..Len(raw) : raw[i] = Lf /\ ~(i > 1 /\ raw[i - 1] = Cr)

\* The newlines get in nobody's way: the file has one kind, and the hunks name only Lf.
Straight ==
  /\ IsNew \/ ~Mixed(original)
  /\ \A i \in 1..Len(hunks) : ~Contains(hunks[i].old, Cr) /\ ~Contains(hunks[i].new, Cr)

\* A patch that is written has changed the file exactly where its hunks say, one
\* after the other, each at the only place with its text, and it has changed
\* something; what the hunks do not name is kept to the character, newlines
\* included.  Exempt are a file that mixes newlines, where all of them are
\* rewritten, and a hunk with a carriage return, which may be folded away.
EditedInPlace ==
  step = "written" /\ Straight =>
    /\ disk # original
    /\ disk \in IF IsNew THEN EditsOfAll({hunks[1].new}, Tail(hunks), original)
                ELSE EditsOfAll({original}, hunks, original)

=============================================================================
