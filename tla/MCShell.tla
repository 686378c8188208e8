------------------------------- MODULE MCShell -------------------------------
(* Instance of Shell for TLC. *)
EXTENDS Shell, TLC

CONSTANTS a, d, ab, home

MCOrder == <<d, a, ab>>
\* The name ab has a space in it, and a before the space.
MCUnquoted == (a :> a) @@ (d :> d) @@ (ab :> a)
MCHome == <<home>>

MCTrees == {
  (<<>> :> Dir) @@ (<<a>> :> File(<<1, 2>>)) @@ (<<d>> :> Dir) @@ (<<d, a>> :> File(<<3>>))
    @@ (<<d, d>> :> Dir),
  (<<>> :> Dir) @@ (<<d>> :> Dir) @@ (<<d, d>> :> File(<<1>>)) @@ (<<d, a>> :> File(<<2>>))
    @@ (<<d, ab>> :> File(<<4>>)) }

Empty == (<<>> :> Dir) @@ (MCHome :> Dir)
MCLocalTrees == {
  Empty @@ (<<home, a>> :> File(<<5>>)),
  Empty @@ (<<home, a>> :> File(<<5, 6, 7>>)) @@ (<<home, d>> :> File(<<8>>)),
  Empty @@ (<<home, d>> :> Dir) @@ (<<home, d, a>> :> Dir) }
=============================================================================
