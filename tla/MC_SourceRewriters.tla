------------------------- MODULE MC_SourceRewriters --------------------------
\* One source file of up to three lines of every kind, also on
\* final_improvement's target list; one file under target/ holding an
\* unwrap; any two script runs in a row.
EXTENDS SourceRewriters

CONSTANTS f1, f2

\* `open` and the other test attributes matter only to the test-block scan,
\* which the test-code inputs below exercise.
InputKinds == {"code", "close", "allow_attr", "test_attr", "use_line", "app_error",
               "app_import", "safe_call", "safe_import"} \cup UnwrapKinds

MC_Files == {f1, f2}
MC_Paths == (f1 :> "src_rs") @@ (f2 :> "target_rs")
MC_Targets == {f1}
\* A second top-level import of AppError or SafeUnwrap would not compile.
MC_Inputs == {(f1 :> ls) @@ (f2 :> <<"u_ident">>) :
                ls \in {l \in SeqOf(InputKinds, 3) : ImportCount(l) <= 1 /\ SafeImportCount(l) <= 1}}
MC_Scripts == {"remove_unwraps", "batch_remove_unwraps", "final_unwrap_removal",
               "final_improvement", "remove_allows"}
MC_MaxRuns == 2

\* Test functions of up to five lines for remove_unwraps alone.
MC_TestInputs ==
  {(f1 :> ls) @@ (f2 :> <<"u_ident">>) :
     ls \in SeqOf({"test_attr", "tokio_test_attr", "cfg_test_attr", "open", "close", "u_ident"}, 5)}
MC_RUOnly == {"remove_unwraps"}
MC_OneRun == 1
=============================================================================
