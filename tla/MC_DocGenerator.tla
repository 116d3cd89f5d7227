--------------------------- MODULE MC_DocGenerator ----------------------------
\* One source file of up to three lines of any kind (two items in a row
\* exercise the offset), one file under target/ holding an undocumented
\* item, two workspace members, two runs.
EXTENDS DocGenerator

CONSTANTS f1, f2, w1, w2

MC_Files == {f1, f2}
MC_Paths == (f1 :> "src_rs") @@ (f2 :> "target_rs")
MC_WsOrder == <<w1, w2>>
MC_MaxRuns == 2
MC_Inputs == (f1 :> SeqOf(Kinds, 3)) @@ (f2 :> {<<"pub_fn">>})
=============================================================================
