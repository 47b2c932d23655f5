---------------------------- MODULE MCUpdateScan ----------------------------
EXTENDS UpdateScan

Block == <<0>>
Part  == <<0, 1>>
Piece == <<0, 1, 1>>
Apart == <<1>>

Row(prefix, path) == [prefix |-> prefix, path |-> path]

\* Maps with the target's block, parts of it in other hands or in both, and a
\* foreign block; a prefix left out is unknown to the snapshot.
MCSnapshots ==
    { (Block :> {"T"}),
      (Block :> {"T"} @@ Part :> {"X"}),
      (Block :> {"X"} @@ Part :> {"T", "X"} @@ Apart :> {"X"}),
      (Block :> {"T"} @@ Piece :> {"X"} @@ Apart :> {"T"}) }

\* Chunks: only withdrawals; others inside the block; the target's own
\* announcements; the target on the path of others.
MCChunks ==
    { <<>>,
      <<Row(Part, <<"Y", "X">>), Row(Block, <<"Y", "X">>)>>,
      <<Row(Piece, <<"X", "T">>), Row(Block, <<"T", "Y", "X">>)>>,
      <<Row(Part, <<"Y", "T">>)>>,
      <<Row(Part, <<"T", "X">>), Row(Apart, <<"Y", "T">>)>>,
      <<Row(Apart, <<"T", "Y", "X">>), Row(Piece, <<"Y", "T">>)>> }

MCLeaky == {<<"Y", "T">>}
=============================================================================
