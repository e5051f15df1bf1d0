----------------------------- MODULE Permissions -----------------------------
(***************************************************************************)
(* Where a worker may be sent to work: the write paths of its              *)
(* configuration (ai_bridge/config.py) and the working directory that a    *)
(* prompt names in its frontmatter (ai_bridge/permissions.py).             *)
(*                                                                         *)
(* A path is what lies between its slashes, empty pieces left out, and the *)
(* number of slashes it begins with: 0 for a relative path, 2 for exactly  *)
(* two, which posixpath.normpath keeps apart from one, and 1 otherwise.    *)
(***************************************************************************)
EXTENDS Integers, SequencesExt

CONSTANTS
  Piece,    \* what may stand between two slashes
  Star,     \* the piece "*"
  Starred,  \* pieces that hold an asterisk among other characters
  Dot,      \* the piece "."
  DotDot,   \* the piece ".."
  None,     \* Python's None
  Files,    \* what configuration files may declare of the worker
  Requests, \* the directories that prompts name
  Dirs,     \* external: what exists, as pieces from the root, links apart
  Real      \* external: where the links lead from the pieces of a path

VARIABLES
  declared,   \* the worker's paths and the compatibility flag in the file
  filesystem, \* worker.filesystem, None before the file was loaded
  asked,      \* what the prompt's frontmatter says, None between calls
  answer      \* what became of it

vars == <<declared, filesystem, asked, answer>>

Path == [lead : 0 .. 2, parts : Seq(Piece)]
Root == [lead |-> 1, parts |-> <<>>]

ASSUME PathAssumption ==
  /\ None \notin Path
  /\ \A file \in Files : file.read \cup file.write \subseteq Path
  /\ Requests \subseteq Path
\* What exists lies in directories that exist, and no link leads away from it.
ASSUME DirsAssumption ==
  <<>> \in Dirs /\ \A d \in Dirs : Real[d] = d /\ Prefixes(d) \subseteq Dirs

-----------------------------------------------------------------------------
(* Paths.                                                                  *)

HasStar(path) == \E p \in Range(path.parts) : p \in {Star} \cup Starred

Traverses(path) == DotDot \in Range(path.parts)

\* SelectSeq, as a recursive function: kept[i] is left of the first i pieces.
WithoutDots(pieces) ==
  LET kept[i \in 0 .. Len(pieces)] ==
        IF i = 0 THEN <<>>
        ELSE IF pieces[i] = Dot THEN kept[i - 1]
        ELSE Append(kept[i - 1], pieces[i])
  IN kept[Len(pieces)]

Clean(path) == [path EXCEPT !.parts = WithoutDots(@)]

(* _safe_normalize: no relative path and no ".."; "." is dropped.          *)
SafeNormalize(path) ==
  IF path.lead = 0 \/ Traverses(path) THEN None ELSE Clean(path)

\* Slip: an asterisk stands for one piece at least.
SpansOneOrMore(candidate) == 1 .. Len(candidate)

\* The numbers of pieces that an asterisk may stand for.
Spans(candidate) == 0 .. Len(candidate)

\* _match_parts: the pattern matches the candidate or a directory above it.
MatchParts[pattern \in Seq(Piece)] ==
  [candidate \in Seq(Piece) |->
    \/ pattern = <<>>
    \/ /\ pattern # <<>> /\ pattern[1] = Star
       /\ \E n \in Spans(candidate) :
            MatchParts[Tail(pattern)][SubSeq(candidate, n + 1, Len(candidate))]
    \/ /\ pattern # <<>> /\ pattern[1] # Star
       /\ candidate # <<>> /\ candidate[1] = pattern[1]
       /\ MatchParts[Tail(pattern)][Tail(candidate)]]

(* One entry of the list in path_is_allowed; both paths are normalised.    *)
(* Only entries without an asterisk tell two leading slashes from one, and *)
(* both roots hold everything.                                             *)
EntryAllows(entry, candidate) ==
  \/ HasStar(entry) /\ MatchParts[entry.parts][candidate.parts]
  \/ /\ ~HasStar(entry)
     /\ \/ entry.parts = <<>>
        \/ /\ entry.lead = candidate.lead
           /\ IsPrefix(entry.parts, candidate.parts)

-----------------------------------------------------------------------------
(* external: Path.resolve(strict=True) on a filesystem that stays as it is *)
(* during a validation.  None stands for what it raises: something does    *)
(* not exist, or the links go round in a circle.                           *)
Resolve(path) ==
  LET place == Real[path.parts]
  IN IF place \in Dirs THEN [lead |-> 1, parts |-> place] ELSE None

\* Slip: only the entries are resolved, the candidate is taken as written.
AsWritten(candidate) == [lead |-> 1, parts |-> candidate.parts]

ResolveCandidate(candidate) == Resolve(candidate)

(* _canonical_path_is_allowed: asterisks are no patterns here, they rule   *)
(* a candidate or an entry out.                                            *)
CanonicalAllows(entry, candidate) ==
  /\ ~HasStar(candidate) /\ ~HasStar(entry)
  /\ LET resolved == ResolveCandidate(candidate)
         allowed  == Resolve(SafeNormalize(entry))
     IN /\ resolved # None /\ allowed # None
        /\ IsPrefix(allowed.parts, resolved.parts)

\* path_is_allowed for the worker as configured.
PathIsAllowed(candidate) ==
  \E entry \in {e \in filesystem.write : SafeNormalize(e) # None} :
    IF filesystem.canonicalize
      THEN CanonicalAllows(entry, candidate)
      ELSE EntryAllows(SafeNormalize(entry), candidate)

\* _normalize_for_dispatch, for a path that is allowed.
NormalizeForDispatch(path) ==
  IF filesystem.canonicalize THEN Resolve(path) ELSE path

-----------------------------------------------------------------------------
(* Configuration and calls.                                                *)

Init ==
  /\ declared = None /\ filesystem = None
  /\ asked = None /\ answer = None

\* Slip: any list that is empty becomes the root.
RootForEmpty(file) ==
  [read |-> IF file.read = {} THEN {Root} ELSE file.read,
   write |-> IF file.write = {} THEN {Root} ELSE file.write]

\* apply_compatibility: a worker without any path gets the root.
RootForNone(file) ==
  IF file.read = {} /\ file.write = {}
    THEN [read |-> {Root}, write |-> {Root}]
    ELSE [read |-> file.read, write |-> file.write]

(* load_config.  A file with a relative path is refused (paths_are_absolute); *)
(* everything not named is left empty.                                     *)
Load(file) ==
  /\ filesystem = None
  /\ \A path \in file.read \cup file.write : path.lead # 0
  /\ declared' = file
  /\ LET paths == IF file.implicitRoot THEN RootForNone(file) ELSE file
     IN filesystem' = [read |-> paths.read, write |-> paths.write,
                       canonicalize |-> file.canonicalize]
  /\ UNCHANGED <<asked, answer>>

(* resolve_working_directory on a call.  The frontmatter names no directory *)
(* ("missing"), is no YAML mapping or holds something else than a text     *)
(* ("invalid"), or names a path.                                           *)
Call(request) ==
  /\ filesystem # None /\ asked = None
  /\ asked' = request
  /\ answer' =
       IF request.says # "path" THEN [ok |-> FALSE, error |-> request.says]
       ELSE LET candidate == SafeNormalize(request.path)
            IN IF /\ candidate # None /\ PathIsAllowed(candidate)
                  /\ NormalizeForDispatch(candidate) # None
                 THEN [ok |-> TRUE, path |-> NormalizeForDispatch(candidate)]
                 ELSE [ok |-> FALSE, error |-> "invalid"]
  /\ UNCHANGED <<declared, filesystem>>

\* The call is over.
Return ==
  /\ asked # None
  /\ asked' = None /\ answer' = None
  /\ UNCHANGED <<declared, filesystem>>

Next ==
  \/ \E file \in Files : Load(file)
  \/ \E request \in [says : {"missing", "invalid"}]
                    \cup [says : {"path"}, path : Requests] : Call(request)
  \/ Return

Spec == Init /\ [][Next]_vars

-----------------------------------------------------------------------------
(* Properties.                                                             *)

(* What the documentation promises of an entry, without an algorithm: the  *)
(* pieces of the entry can be laid over the beginning of the candidate, an *)
(* asterisk over any number of pieces and every other over an equal one.   *)
(* end[i] is where the i-th piece of the entry ends.                       *)
LaidOver(entry, candidate) ==
  LET n == Len(entry)
  IN \E end \in [0 .. n -> 0 .. Len(candidate)] :
       /\ end[0] = 0
       /\ \A i \in 1 .. n :
            IF entry[i] = Star THEN end[i] >= end[i - 1]
            ELSE end[i] = end[i - 1] + 1 /\ candidate[end[i]] = entry[i]

\* The entries as the file declares them, the way out for old files included.
Granted ==
  IF declared.implicitRoot /\ declared.read = {} /\ declared.write = {}
    THEN {Root} ELSE declared.write

(* Comparing paths only, a call is let through exactly if the file grants  *)
(* its directory: absolute, without "..", at or below an entry, which may  *)
(* hold asterisks; nothing is granted by a file that lists nothing         *)
(* (path_is_allowed, _match_parts, apply_compatibility).                   *)
GrantedExactly ==
  asked # None /\ ~declared.canonicalize =>
    (answer.ok <=>
       /\ asked.says = "path"
       /\ asked.path.lead # 0 /\ ~Traverses(asked.path)
       /\ \E entry \in Granted :
            LET e == Clean(entry)
            IN /\ ~Traverses(entry)
               /\ LaidOver(e.parts, Clean(asked.path).parts)
               /\ e.parts = <<>> \/ HasStar(e) \/ e.lead = asked.path.lead)

(* In canonical mode the worker is sent to a place that exists, is reached *)
(* through no link, and lies in a granted directory or in the place a      *)
(* granted link leads to (_canonical_path_is_allowed and                   *)
(* _normalize_for_dispatch resolve on their own).                          *)
StaysInside ==
  asked # None /\ declared.canonicalize /\ answer.ok =>
    /\ Prefixes(answer.path.parts) \subseteq Dirs
    /\ \E entry \in Granted :
         LET place == Resolve(Clean(entry))
         IN /\ ~Traverses(entry) /\ place # None
            /\ IsPrefix(place.parts, answer.path.parts)

=============================================================================
