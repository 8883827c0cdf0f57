------------------------------ MODULE ImageScan ------------------------------
(***************************************************************************)
(* The scanner that decides whether an image gives the locked patches away *)
(* (tasks/flask_image_audit.py, shared with Django): every file, then      *)
(* every git object, is streamed in chunks, and the end of what was read   *)
(* is kept so that a signature split over chunks is seen.  The signatures  *)
(* are derived from the locked patches: the text a hunk leaves, and every  *)
(* run of added lines that is long enough to prove something.  What was    *)
(* found becomes an audit, and the audit a status.                         *)
(***************************************************************************)
EXTENDS Integers, SequencesExt

CONSTANTS Chunk,           \* bytes of one read
          MinMeaningful    \* bytes an added run needs to be a signature of its own

Prefix == {"test", "gold"}
Source == <<"filesystem", "git">>     \* in the order they are scanned

ASSUME ScanAssumption == Chunk \in Nat \ {0} /\ MinMeaningful \in Nat \ {0}

Byte == 0..255
Op == {"added", "removed", "kept"}
HunkLine == [op : Op, text : Seq(Byte)]

VARIABLES image,     \* the locked patches, what each source of the image holds, and what
                     \* the checks of its git state and of the patch targets would say
          source,    \* the index in Source of the object that is scanned
          consumed,  \* bytes of it that were read
          tail,      \* the end of what was read
          matches,   \* what of it matched
          reached    \* of each source: the prefixes that matched in it

scanVars == <<source, consumed, tail, matches, reached>>

ScanInit ==
  /\ source = 1 /\ consumed = 0 /\ tail = <<>> /\ matches = {}
  /\ reached = [s \in {1, 2} |-> {}]

Object == image.content[source]

OccursIn(needle, text) ==
  \E i \in 0..(Len(text) - Len(needle)) :
    \A j \in 1..Len(needle) : text[i + j] = needle[j]

------------------------------------------------------------------------------
(* The signatures.  A patch is a set of hunks, a hunk a sequence of lines that are
   added, removed or kept. *)

Text(lines) == FlattenSeq([i \in DOMAIN lines |-> lines[i].text])
Left(line) == IF line.op = "removed" THEN <<>> ELSE line.text
After(hunk) == FlattenSeq([i \in DOMAIN hunk |-> Left(hunk[i])])

IsAdded(hunk, i) == i \in DOMAIN hunk /\ hunk[i].op = "added"
AddedGroups(hunk) ==
  {Text(SubSeq(hunk, r[1], r[2])) :
     r \in {x \in (DOMAIN hunk) \X (DOMAIN hunk) :
              /\ x[1] <= x[2] /\ \A i \in x[1]..x[2] : IsAdded(hunk, i)
              /\ ~IsAdded(hunk, x[1] - 1) /\ ~IsAdded(hunk, x[2] + 1)}}

Groups(p) == UNION {AddedGroups(h) : h \in image.patch[p]}
Meaningful(group) == Len(group) >= MinMeaningful
Unprovable(p) == \E g \in Groups(p) : ~Meaningful(g)

\* _patch_targets_and_hunks refuses a patch that adds nothing, so there is a needle.
Needle(p) ==
  {After(h) : h \in {x \in image.patch[p] : AddedGroups(x) # {}}}
  \cup {g \in Groups(p) : Meaningful(g)}

Maximum == Max({Len(x) : x \in Needle("test") \cup Needle("gold")})

------------------------------------------------------------------------------
(* The scan. *)

LastOf(text, n) == SubSeq(text, Max({1, Len(text) - n + 1}), Len(text))

\* Mutant of Kept: as many bytes as the longest signature has, less two.
KeptShort(window) == LastOf(window, Max({0, Maximum - 2}))

Kept(window) == LastOf(window, Maximum - 1)

ReadChunk ==
  /\ source \in DOMAIN Source /\ consumed < Len(Object)
  /\ consumed' = Min({Len(Object), consumed + Chunk})
  /\ LET window == tail \o SubSeq(Object, consumed + 1, consumed')
     IN  /\ matches' = matches \cup
              {p \in Prefix : \E x \in Needle(p) : OccursIn(x, window)}
         /\ tail' = Kept(window)
  /\ UNCHANGED <<image, source, reached>>

\* The object was read to its end: its matches are counted, and the next one starts afresh.
Counted ==
  /\ consumed = Len(Object)
  /\ reached' = [reached EXCEPT ![source] = matches]
  /\ source' = source + 1 /\ consumed' = 0 /\ tail' = <<>> /\ matches' = {}
  /\ UNCHANGED image

scan_filesystem == source = 1 /\ Counted
scan_git_objects == source = 2 /\ Counted

ScanStep == ReadChunk \/ scan_filesystem \/ scan_git_objects
ScanComplete == source \notin DOMAIN Source

------------------------------------------------------------------------------
(* The audit.  `git` is what the checks of the repository and of the patch targets
   say: nothing, or the first of the reasons below that applies. *)
GitFinding == {"none", "not_clean", "target_exists", "hunk_in_history", "patch_applied",
               "patch_does_not_apply"}

GitClean == image.git = "none"

audit_status(found) ==
  IF ~GitClean \/ found[1] # {} \/ found[2] # {} \/ \E p \in Prefix : Unprovable(p)
  THEN "blocked" ELSE "passed"

\* What the audit is for: no text a locked patch adds is in anything the image holds.
GivesAway(p) ==
  \E s \in DOMAIN Source : \E g \in Groups(p) : OccursIn(g, image.content[s])
===============================================================================
