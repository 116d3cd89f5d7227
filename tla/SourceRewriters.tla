---------------------------- MODULE SourceRewriters ----------------------------
(***************************************************************************)
(* The five source-rewriting scripts of src/scripts/ run, one after       *)
(* another, on the same Rust project:                                      *)
(*   remove_unwraps        (RU)  .unwrap() -> ? outside test blocks         *)
(*   batch_remove_unwraps  (BR)  .unwrap() -> .ok()/.expect(...)            *)
(*   final_unwrap_removal  (FU)  every .unwrap() -> .expect(...)            *)
(*   final_improvement     (FI)  selected .unwrap() -> .ok()/.unwrap_or_*   *)
(*   remove_allows         (RA)  drops #[allow(...)] lines                  *)
(* Each walks the project with target/ pruned, rewrites every .rs file    *)
(* with a list of regular expressions, writes the file back when it       *)
(* changed, and prints a total.                                            *)
(*                                                                         *)
(* A source line is abstracted to the kind the patterns tell apart:       *)
(*   "code" "open" (ends with {) "close" (only })                          *)
(*   "test_attr" #[test]   "tokio_test_attr" #[tokio::test]                *)
(*   "cfg_test_attr" #[cfg(test)]   "allow_attr" a #[allow(...)] line      *)
(*   "use_line" a top-level use statement   "app_error" a line naming      *)
(*   AppError   "app_import" use shared::tool::error::AppError;           *)
(*   "safe_call" a line calling .safe_unwrap(..) or .safe_expect(..)        *)
(*   "safe_import" use shared::error_handling::{SafeUnwrap, ProjectResult}; *)
(* and one .unwrap() call site per line, by its receiver:                  *)
(*   "u_ident"      x.unwrap();          "u_ident_expr" f(x.unwrap())      *)
(*   "u_call"       f(a).unwrap()        "u_lock"       m.lock().unwrap()  *)
(*   "u_nested"     f(g(a)).unwrap()                                       *)
(*   "u_socket"     a.to_socket_addrs().unwrap().next().unwrap() (2 sites) *)
(* A rewritten site is "r_question" (?), "r_expect" (.expect(..), any     *)
(* message), "r_ok" (.ok()) or "r_default" (.unwrap_or_default()).        *)
(* The message strings of the replacements are not kept.                 *)
(*                                                                         *)
(* A file may fail to decode (every script catches the error and skips    *)
(* it) or be read-only (open(.., 'w') raises).                             *)
(***************************************************************************)
EXTENDS Naturals, Sequences, SequencesExt, FiniteSets

CONSTANTS
  Files,      \* paths under the project root (model values)
  Paths,      \* [Files -> {"src_rs", "tests_rs", "target_rs"}]; tests_rs: 'test' in the path
  Targets,    \* the files of final_improvement's target_files list that exist
  Inputs,     \* the project contents the scripts may start from: a set of [Files -> Seq(line kinds)]
  Scripts,    \* the scripts the user may run
  MaxRuns     \* bound on the script runs

VARIABLES
  original,   \* each file's content before the first run
  content,    \* each file's content now
  readable,   \* the file decodes as UTF-8
  writable,   \* open(filepath, 'w') succeeds
  script,     \* the script of the current run
  pc,         \* "idle" "targets" "scan" "files" "done"
  todo,       \* files the current pass has still to process
  reported,   \* the total the current run prints
  removed,    \* sites (RA: attribute lines) taken out of written files in this run
  cleaned,    \* files a final_unwrap_removal run has processed to the end
  rewritten,  \* files the current run has written changed
  runs

vars == <<original, content, readable, writable, script, pc, todo, reported,
          removed, cleaned, rewritten, runs>>

UnwrapKinds == {"u_ident", "u_ident_expr", "u_call", "u_lock", "u_nested", "u_socket"}
TestAttrs == {"test_attr", "tokio_test_attr", "cfg_test_attr"}
Kinds == {"code", "open", "close", "allow_attr", "use_line", "app_error", "app_import",
          "safe_call", "safe_import"}
           \cup TestAttrs \cup UnwrapKinds
           \cup {"r_question", "r_expect", "r_ok", "r_default"}

\* The .unwrap() sites of a line, and of a file.
Sites(k) == CASE k = "u_socket" -> 2 [] k \in UnwrapKinds -> 1 [] OTHER -> 0
SiteCount(ls) == FoldSeq(LAMBDA k, acc : Sites(k) + acc, 0, ls)
AllowCount(ls) == Len(SelectSeq(ls, LAMBDA k : k = "allow_attr"))

\* Every script: os.walk(project_root) with 'target' removed from dirs,
\* keeping the *.rs files.
RustFiles == {f \in Files : Paths[f] # "target_rs"}

LinesChanged(old, new) == Cardinality({i \in 1 .. Len(old) : old[i] # new[i]})

(***************************************************************************)
(* remove_unwraps.py: the line loop of process_file.  A line containing   *)
(* #[test] or #[cfg(test)] opens a test block, the next line that strips  *)
(* to } closes it.  Outside a block, analyze_unwrap tries its patterns in *)
(* order and the first, \.unwrap\(\) -> ?, matches every line with a site; *)
(* so the safe_unwrap and safe_expect rewrites never happen.  The import  *)
(* step still runs on a modified file.                                     *)
(***************************************************************************)
RECURSIVE RUScan(_, _, _)
RUScan(ls, i, in_test) ==
  IF i > Len(ls) THEN ls
  ELSE LET t == IF ls[i] \in {"test_attr", "cfg_test_attr"} THEN TRUE
                ELSE IF in_test /\ ls[i] = "close" THEN FALSE
                ELSE in_test
       IN RUScan(IF ~t /\ ls[i] \in UnwrapKinds THEN [ls EXCEPT ![i] = "r_question"]
                                                ELSE ls,
                 i + 1, t)

UseKinds == {"use_line", "app_import", "safe_import"}
SafeImportCount(ls) == Len(SelectSeq(ls, LAMBDA k : k = "safe_import"))

\* Mutant: the `break` out of the if, so only the first line is looked at.
NeedsImportFirstOnly(ls) == Len(ls) > 0 /\ ls[1] = "safe_call"

\* process_file 95-99: any line of new_lines, rewritten or not, that
\* contains safe_unwrap or safe_expect.
NeedsImport(ls) == \E i \in 1 .. Len(ls) : ls[i] = "safe_call"

\* 103-108: after the last of the file's leading use lines (every other
\* kind is neither blank nor a comment and ends the search).
ImportIndex(ls) ==
  CHOOSE n \in 0 .. Len(ls) :
    /\ \A i \in 1 .. n : ls[i] \in UseKinds
    /\ n = Len(ls) \/ ls[n + 1] \notin UseKinds

\* Mutant: the import inserted without the `not in new_lines` test.
RURewriteNoGuard(ls) ==
  LET out == RUScan(ls, 1, FALSE)
  IN IF out # ls /\ NeedsImport(out)
       THEN InsertAt(out, ImportIndex(out) + 1, "safe_import") ELSE out

\* 93-112: a modified file that needs the import gets it, unless its
\* exact text is already there.
RURewrite(ls) ==
  LET out == RUScan(ls, 1, FALSE)
  IN IF out # ls /\ NeedsImport(out) /\ SafeImportCount(out) = 0
       THEN InsertAt(out, ImportIndex(out) + 1, "safe_import") ELSE out

(***************************************************************************)
(* batch_remove_unwraps.py: a file is a test file when 'test' is in its   *)
(* path or #[test] / #[cfg(test)] in its content; there every site        *)
(* becomes .expect(..).  Elsewhere (\w+)\.unwrap\(\) and                  *)
(* (\([^)]+\))\.unwrap\(\) hand a word or a parenthesised argument list   *)
(* to replace_unwrap, whose context tests never see a method name, so the *)
(* result is .ok(); m.lock().unwrap() (empty parentheses), nested calls   *)
(* and the socket chain match no pattern.  The unwrap_or patterns replace *)
(* text by itself.                                                         *)
(***************************************************************************)
IsTestFile(f, ls) ==
  Paths[f] = "tests_rs" \/ \E i \in 1 .. Len(ls) : ls[i] \in {"test_attr", "cfg_test_attr"}

BRLine(k) == IF k \in {"u_ident", "u_ident_expr", "u_call"} THEN "r_ok" ELSE k

BRRewrite(f, ls) ==
  IF IsTestFile(f, ls)
    THEN [i \in 1 .. Len(ls) |-> IF ls[i] \in UnwrapKinds THEN "r_expect" ELSE ls[i]]
    ELSE [i \in 1 .. Len(ls) |-> BRLine(ls[i])]

(***************************************************************************)
(* final_unwrap_removal.py: the #[test] and #[tokio::test] patterns, the  *)
(* lock/parse/write/read/Arc/clone patterns and the final \.unwrap\(\)     *)
(* catch-all; whichever reaches a site first, it becomes .expect(..) (or  *)
(* .unwrap_or_default() for parse, not among the receivers here).         *)
(***************************************************************************)
\* Mutant: no catch-all; only the lock pattern applies to these receivers.
FURewriteNoCatchAll(ls) ==
  [i \in 1 .. Len(ls) |-> IF ls[i] = "u_lock" THEN "r_expect" ELSE ls[i]]

FURewrite(ls) == [i \in 1 .. Len(ls) |-> IF ls[i] \in UnwrapKinds THEN "r_expect" ELSE ls[i]]

(***************************************************************************)
(* final_improvement.py fix_remaining_unwraps: the socket-address chain   *)
(* becomes one .expect(..); (\w+)\.unwrap\(\); -> .ok(); and              *)
(* (\w+\([^)]*\))\.unwrap\(\) -> .unwrap_or_default().  An identifier     *)
(* site not followed by ; and a nested call match nothing.  The count    *)
(* adds, per pattern that changed the file, the number of its matches.    *)
(***************************************************************************)
FILine(k) ==
  CASE k = "u_socket" -> "r_expect"
    [] k = "u_ident"  -> "r_ok"
    [] k \in {"u_call", "u_lock"} -> "r_default"
    [] OTHER -> k

FIRewrite(ls) == [i \in 1 .. Len(ls) |-> FILine(ls[i])]

(***************************************************************************)
(* remove_allows.py: the whole-line pattern, then the inline one.         *)
(***************************************************************************)
RARewrite(ls) == SelectSeq(ls, LAMBDA k : k # "allow_attr")

(***************************************************************************)
(* final_improvement.py add_error_handling_imports: a file that names     *)
(* AppError without importing it gets the import right after its last     *)
(* `^use .*;` line; with no such line, or if the write fails (bare        *)
(* except), the file is left as it is.  The import goes in with          *)
(* str.replace of the last use line's text, which hits that line alone    *)
(* because a file's top-level use lines differ (Rust rejects a repeated   *)
(* import); the import is recognised by its exact text only.              *)
(***************************************************************************)
UsesAppError(ls) == \E i \in 1 .. Len(ls) : ls[i] \in {"app_error", "app_import"}
ImportCount(ls) == Len(SelectSeq(ls, LAMBDA k : k = "app_import"))
UseLines(ls) == {i \in 1 .. Len(ls) : ls[i] \in UseKinds}

\* Mutant: the guard tests for AppError but not for its import.
AddErrorHandlingImportsWrongGuard(f, ls) ==
  IF UsesAppError(ls) /\ UseLines(ls) # {} /\ writable[f]
    THEN LET last == CHOOSE i \in UseLines(ls) : \A j \in UseLines(ls) : j <= i
         IN SubSeq(ls, 1, last) \o <<"app_import">> \o SubSeq(ls, last + 1, Len(ls))
    ELSE ls

AddErrorHandlingImports(f, ls) ==
  IF UsesAppError(ls) /\ ImportCount(ls) = 0 /\ UseLines(ls) # {} /\ writable[f]
    THEN LET last == CHOOSE i \in UseLines(ls) : \A j \in UseLines(ls) : j <= i
         IN SubSeq(ls, 1, last) \o <<"app_import">> \o SubSeq(ls, last + 1, Len(ls))
    ELSE ls

(***************************************************************************)
(* One file, as each script handles it: what the file holds afterwards   *)
(* and what is added to the printed total.  Every script catches the      *)
(* exception of an undecodable file (read) and of a read-only one         *)
(* (open(.., 'w')); they differ in whether the count comes before the     *)
(* write and in what is counted.                                          *)
(***************************************************************************)
Result(new, n) == [new |-> new, n |-> n]

\* remove_unwraps: rewritten lines are counted as they are rewritten,
\* before the write is attempted.
RUProcess(f, ls) ==
  IF ~readable[f] THEN Result(ls, 0)
  ELSE Result(IF writable[f] THEN RURewrite(ls) ELSE ls,
              LinesChanged(ls, RUScan(ls, 1, FALSE)))

\* batch_remove_unwraps: one per call of a replacement function, added
\* after a successful write.
BRProcess(f, ls) ==
  LET new == BRRewrite(f, ls)
  IN IF readable[f] /\ writable[f] /\ new # ls
       THEN Result(new, SiteCount(ls) - SiteCount(new)) ELSE Result(ls, 0)

\* final_unwrap_removal: the .unwrap() calls of the original, added after
\* a successful write.
FUProcess(f, ls) ==
  LET new == FURewrite(ls)
  IN IF readable[f] /\ writable[f] /\ new # ls /\ SiteCount(ls) > 0
       THEN Result(new, SiteCount(ls)) ELSE Result(ls, 0)

\* final_improvement: fix_remaining_unwraps counts the matches of each
\* pattern that changed the file and writes it; the run loop then adds the
\* count and calls add_error_handling_imports, which reads the file again.
FIProcess(f, ls) ==
  LET new == FIRewrite(ls)
  IN IF readable[f] /\ writable[f] /\ new # ls
       THEN Result(AddErrorHandlingImports(f, new), LinesChanged(ls, new))
       ELSE Result(ls, 0)

\* Mutant: remove_allows counting the attributes left after the rewrite.
RAProcessCountNew(f, ls) ==
  LET new == RARewrite(ls)
  IN IF readable[f] /\ writable[f] /\ new # ls
       THEN Result(new, AllowCount(new)) ELSE Result(ls, 0)

\* remove_allows: the #[allow] attributes of the original, after the write.
RAProcess(f, ls) ==
  LET new == RARewrite(ls)
  IN IF readable[f] /\ writable[f] /\ new # ls
       THEN Result(new, AllowCount(ls)) ELSE Result(ls, 0)

Process(s, f, ls) ==
  CASE s = "remove_unwraps"       -> RUProcess(f, ls)
    [] s = "batch_remove_unwraps" -> BRProcess(f, ls)
    [] s = "final_unwrap_removal" -> FUProcess(f, ls)
    [] s = "final_improvement"    -> FIProcess(f, ls)
    [] s = "remove_allows"        -> RAProcess(f, ls)

Removable(s, ls) == IF s = "remove_allows" THEN AllowCount(ls) ELSE SiteCount(ls)

-----------------------------------------------------------------------------
Init ==
  /\ original \in Inputs
  /\ content = original
  /\ readable \in [Files -> BOOLEAN]
  /\ writable \in [Files -> BOOLEAN]
  \* no script opens a file under target/, so its flags are fixed
  /\ \A f \in Files : Paths[f] = "target_rs" => readable[f] /\ writable[f]
  /\ script = "none" /\ pc = "idle" /\ todo = {}
  /\ reported = 0 /\ removed = 0 /\ cleaned = {} /\ rewritten = {}
  /\ runs = 0

Fixed == <<original, readable, writable>>

\* The files a run goes through first: final_improvement's target_files
\* that exist, every other script's os.walk.
FirstPass(s) == IF s = "final_improvement" THEN Targets ELSE RustFiles

\* The user starts a script.  final_improvement first works through its
\* target_files list, then scans the whole project.
Start(s) ==
  /\ pc \in {"idle", "done"} /\ runs < MaxRuns
  /\ script' = s /\ runs' = runs + 1
  /\ reported' = 0 /\ removed' = 0 /\ rewritten' = {}
  /\ pc' = IF s = "final_improvement" THEN "targets" ELSE "files"
  /\ todo' = FirstPass(s)
  /\ UNCHANGED <<Fixed, content, cleaned>>

\* One file of the run's loop: processed, its count added to the total.
ProcessFile(f) ==
  /\ pc \in {"targets", "scan", "files"} /\ f \in todo
  /\ todo' = todo \ {f}
  /\ LET old == content[f]
         r == Process(script, f, old)
     IN /\ content' = [content EXCEPT ![f] = r.new]
        /\ reported' = reported + r.n
        /\ removed' = removed + Removable(script, old) - Removable(script, r.new)
        /\ cleaned' = IF script = "final_unwrap_removal" /\ readable[f]
                         /\ (FURewrite(old) # old => writable[f])
                        THEN cleaned \cup {f} ELSE cleaned
        /\ rewritten' = IF r.new # old
                         THEN rewritten \cup {f} ELSE rewritten
  /\ UNCHANGED <<Fixed, script, pc, runs>>

\* final_improvement: after its target files, the full os.walk scan.
ScanAll ==
  /\ pc = "targets" /\ todo = {}
  /\ pc' = "scan" /\ todo' = RustFiles
  /\ UNCHANGED <<Fixed, content, script, reported, removed, cleaned, rewritten, runs>>

\* The walk is over; the total is printed.
Finish ==
  /\ pc \in {"scan", "files"} /\ todo = {}
  /\ pc' = "done"
  /\ UNCHANGED <<Fixed, content, script, todo, reported, removed, cleaned, rewritten, runs>>

Next ==
  \/ \E s \in Scripts : Start(s)
  \/ \E f \in Files : ProcessFile(f)
  \/ ScanAll \/ Finish

Spec == Init /\ [][Next]_vars

-----------------------------------------------------------------------------
(* Properties *)

\* Contents stay over the line kinds; the only lines ever added are the
\* AppError import (final_improvement) and the SafeUnwrap import
\* (remove_unwraps), and neither is ever in a file twice, whichever
\* scripts run in which order.
AddedLines(f) ==
  (Len(content[f]) - ImportCount(content[f]) - SafeImportCount(content[f]))
    - (Len(original[f]) - ImportCount(original[f]) - SafeImportCount(original[f]))

TypeOK ==
  /\ content \in [Files -> Seq(Kinds)]
  /\ \A f \in Files :
       AddedLines(f) <= 0 /\ ImportCount(content[f]) <= 1 /\ SafeImportCount(content[f]) <= 1
  /\ pc \in {"idle", "targets", "scan", "files", "done"}
  /\ todo \subseteq Files /\ cleaned \subseteq RustFiles /\ rewritten \subseteq RustFiles
  /\ runs \in 0 .. MaxRuns

\* final_unwrap_removal's docstring: every unwrap is removed.  Once a run
\* of it has processed a file, the file has no .unwrap() left, whichever
\* scripts ran before and run after it.
NoUnwrapAfterFinalRemoval ==
  \A f \in cleaned : SiteCount(content[f]) = 0

\* final_unwrap_removal and remove_allows print how many .unwrap() calls
\* (#[allow] attributes) they removed: at the end of such a run the total
\* equals what was taken out of the files actually written, read-only and
\* undecodable files included.
FinalCountsMatch ==
  pc = "done" /\ script \in {"final_unwrap_removal", "remove_allows"}
    => reported = removed

\* add_error_handling_imports: when a final_improvement run ends, every
\* file it rewrote that names AppError and has a use statement imports
\* AppError exactly once, although the target files are processed twice
\* and the import step re-reads what fix_remaining_unwraps wrote.
AppErrorImported ==
  pc = "done" /\ script = "final_improvement" =>
    \A f \in rewritten :
      UsesAppError(content[f]) /\ UseLines(content[f]) # {} => ImportCount(content[f]) = 1

\* remove_unwraps 93-112: when a run of it ends, every file it wrote that
\* calls safe_unwrap or safe_expect, in a line it rewrote or in one it
\* left alone, imports SafeUnwrap.
SafeUnwrapImported ==
  pc = "done" /\ script = "remove_unwraps" =>
    \A f \in rewritten :
      (\E i \in 1 .. Len(content[f]) : content[f][i] = "safe_call")
        => SafeImportCount(content[f]) = 1

\* Line i lies inside the item that follows a test attribute: after the
\* first { below the attribute and before its matching }.
InTest(ls, i) ==
  \E a \in 1 .. i - 1 :
    /\ ls[a] \in TestAttrs
    /\ LET opens == {o \in a + 1 .. i - 1 : ls[o] = "open"}
       IN /\ opens # {}
          /\ LET o == CHOOSE o \in opens : \A q \in opens : o <= q
             IN Cardinality({k \in o .. i - 1 : ls[k] = "open"})
                  > Cardinality({k \in o .. i - 1 : ls[k] = "close"})

\* remove_unwraps leaves test code alone (`# 테스트 코드는 제외`, test code
\* excluded): no .unwrap() inside a test function or a #[cfg(test)] module
\* is turned into `?`.
TestCodeKeepsUnwrap ==
  \A f \in Files : \A i \in 1 .. Len(content[f]) :
    content[f][i] = "r_question" => ~InTest(content[f], i)

=============================================================================
