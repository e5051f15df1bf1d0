---------------------------- MODULE MCPermissions ----------------------------
(***************************************************************************)
(* Small instances of Permissions for TLC.                                 *)
(***************************************************************************)
EXTENDS Permissions

CONSTANTS a, b, as

Paths(leads, pieces, n) == [lead : leads, parts : SeqOf(pieces, n)]

MCLists ==
  LET entries == Paths({1}, {a, b, Star}, 3) \cup Paths({1}, {a, Dot, DotDot, as}, 1)
                 \cup Paths({0, 2}, {a, Star}, 1)
                 \cup {[Root EXCEPT !.parts = <<Star, p, Star, q>>] : p, q \in {a, b}}
                 \cup {[Root EXCEPT !.parts = <<a, p, b>>] : p \in {Dot, DotDot, as}}
      pair == {[Root EXCEPT !.parts = p] : p \in {<<a>>, <<Star, b>>}}
  IN {{e} : e \in entries} \cup {{}, pair}

\* A worker with write paths reads too; the flag and empty lists in all ways.
MCFiles ==
  [read : {{Root}}, write : MCLists, canonicalize : BOOLEAN, implicitRoot : {FALSE}]
  \cup [read : {{}, {Root}}, write : {{}, {[Root EXCEPT !.parts = <<a>>]}},
        canonicalize : BOOLEAN, implicitRoot : BOOLEAN]

MCRequests ==
  Paths({1}, {a, b}, 5) \cup Paths({1}, {a, b, Star, Dot, DotDot, as}, 2)
  \cup Paths({0, 2}, {a, b}, 2)
  \cup {[Root EXCEPT !.parts = <<a, p, q>>] : p, q \in {b, Dot, DotDot, as}}

\* /a, /a/a, /b and /b/b exist; /a/b is a link to /b, /b/a one to itself, /as
\* leads to /a/b and on to /b.
MCDirs == {<<>>, <<a>>, <<a, a>>, <<b>>, <<b, b>>}
MCLinks ==
  [l \in {<<a, b>>, <<b, a>>, <<as>>} |->
     CASE l = <<a, b>> -> [lead |-> 1, parts |-> <<b>>]
       [] l = <<b, a>> -> [lead |-> 1, parts |-> <<b, a>>]
       [] l = <<as>> -> [lead |-> 1, parts |-> <<a, b>>]]

(* Where the pieces rest lead from the place real, while the links in open *)
(* are being followed; None if they lead nowhere.                          *)
RECURSIVE Follow(_, _, _)
Follow(real, rest, open) ==
  IF rest = <<>> THEN real
  ELSE LET next == Append(real, rest[1])
       IN IF next \in open THEN None
          ELSE IF next \in DOMAIN MCLinks
            THEN LET target == Follow(<<>>, MCLinks[next].parts, open \cup {next})
                 IN IF target = None THEN None
                    ELSE Follow(target, Tail(rest), open)
          ELSE IF next \in MCDirs THEN Follow(next, Tail(rest), open)
          ELSE None

MCPiece == {a, b, as, Star, Dot, DotDot}
MCReal == [pieces \in Seq(MCPiece) |-> Follow(<<>>, pieces, {})]

=============================================================================
