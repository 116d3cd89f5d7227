----------------------------- MODULE DocGenerator -----------------------------
(***************************************************************************)
(* src/scripts/generate_docs.py: DocumentationGenerator walks a project,  *)
(* inserts a rustdoc block above every public item whose previous line is *)
(* not a doc comment, then writes a README.md into each workspace member  *)
(* that lacks one, and prints a report.                                   *)
(*                                                                         *)
(* A Rust source file is a sequence of lines, each abstracted to what     *)
(* find_undocumented_items tells apart:                                   *)
(*   "doc"           a line whose strip() starts with /// or //!           *)
(*   "pub_struct" .. a line matched by ^pub\s+(struct|fn|...)\s+(\w+);     *)
(*                   "pub_const" stands for const, static and type, which *)
(*                   share the one-line default doc                        *)
(*   "pub_async_fn"  a public item the pattern misses (pub async fn)       *)
(*   "attr"          an attribute line such as #[derive(Debug)]            *)
(*   "code"          any other line                                        *)
(* A generated template becomes as many "doc" lines as it has lines.      *)
(*                                                                         *)
(* The script can be run again: a new process with fresh stats (Rerun).   *)
(* Ctrl-C between two files and a missing workspace directory in          *)
(* generate_module_docs (open() raises, nothing catches it) end a run      *)
(* early; the files already rewritten stay rewritten.                     *)
(***************************************************************************)
EXTENDS Naturals, Sequences, SequencesExt, FiniteSets

CONSTANTS
  Files,        \* paths found under the project root (model values)
  Paths,        \* [Files -> {"src_rs", "target_rs", "src_other"}]
  Inputs,       \* [Files -> the contents the file may start with]
  WsOrder,      \* the workspace member list of generate_module_docs
  MaxRuns       \* bound on the runs of the script

Workspaces == ToSet(WsOrder)

VARIABLES
  pc,                 \* "walk" "files" "module_docs" "done" "crashed"
  original,           \* each file's content before the first run
  content,            \* each file's content now
  readable,           \* the file decodes as UTF-8 (else process_file raises)
  touched,            \* files some run has read and processed
  todo,               \* rust_files not yet processed in this run
  files_processed,    \* self.stats['files_processed']
  items_documented,   \* self.stats['items_documented']
  ws_i,               \* position in the workspace loop
  readme,             \* [Workspaces -> {"present", "missing", "generated"}]
  dir_exists,         \* [Workspaces -> BOOLEAN]
  runs                \* runs started so far

vars == <<pc, original, content, readable, touched, todo, files_processed,
          items_documented, ws_i, readme, dir_exists, runs>>

Kinds == {"code", "doc", "attr", "pub_struct", "pub_fn", "pub_trait",
          "pub_enum", "pub_const", "pub_async_fn"}

(***************************************************************************)
(* find_undocumented_items                                                 *)
(***************************************************************************)
\* The item type captured by the public-item pattern.
PubItem == [pub_struct |-> "struct", pub_fn |-> "fn", pub_trait |-> "trait",
            pub_enum |-> "enum", pub_const |-> "const"]

IsPubItem(l) == l \in DOMAIN PubItem

\* Only the line right before the item is looked at.
HasDoc(ls, i) == i > 1 /\ ls[i - 1] = "doc"

\* The items in file order; `line` is the 1-based line number (i + 1 of
\* the 0-based enumerate).
FindUndocumented(ls) ==
  LET idx == SelectSeq([i \in 1 .. Len(ls) |-> i],
                       LAMBDA i : IsPubItem(ls[i]) /\ ~HasDoc(ls, i))
  IN [k \in 1 .. Len(idx) |-> [type |-> PubItem[ls[idx[k]]], line |-> idx[k]]]

(***************************************************************************)
(* load_templates and generate_documentation: the templates are keyed     *)
(* 'struct', 'function', 'trait' and 'enum', and looked up by the captured *)
(* item type, so a `fn` gets the one-line default, as const does.          *)
(***************************************************************************)
Templates == [struct |-> 15, function |-> 22, trait |-> 17, enum |-> 17]

DocLines(type) ==
  IF type \in DOMAIN Templates THEN [i \in 1 .. Templates[type] |-> "doc"]
                               ELSE <<"doc">>

(***************************************************************************)
(* process_file: for each item, insert its doc lines in reverse at index  *)
(* item['line'] - 1 + offset, adding one to offset per line inserted.     *)
(* Python's list.insert(k, x) is InsertAt(ls, k + 1, x); inserting the    *)
(* lines of doc from the last to the first at one index places the whole  *)
(* block, in order, before the line now at that index.                    *)
(***************************************************************************)
InsertLines(ls, at, doc) == SubSeq(ls, 1, at - 1) \o doc \o SubSeq(ls, at, Len(ls))

\* Mutant: offset not carried from one item to the next.
InsertDocsNoOffset(ls, items, offset) ==
  LET RECURSIVE Ins(_, _)
      Ins(l, its) ==
        IF its = <<>> THEN l
        ELSE Ins(InsertLines(l, Head(its).line - 1 + offset + 1,
                             DocLines(Head(its).type)), Tail(its))
  IN Ins(ls, items)

RECURSIVE InsertDocs(_, _, _)
InsertDocs(ls, items, offset) ==
  IF items = <<>> THEN ls
  ELSE LET doc == DocLines(Head(items).type)
       IN InsertDocs(InsertLines(ls, Head(items).line - 1 + offset + 1, doc),
                     Tail(items), offset + Len(doc))

Documented(ls) == InsertDocs(ls, FindUndocumented(ls), 0)

-----------------------------------------------------------------------------
Init ==
  /\ pc = "walk"
  /\ original \in {o \in [Files -> UNION {Inputs[f] : f \in Files}] :
                     \A f \in Files : o[f] \in Inputs[f]}
  /\ content = original
  /\ readable \in [Files -> BOOLEAN]
  /\ touched = {} /\ todo = {}
  /\ files_processed = 0 /\ items_documented = 0
  /\ ws_i = 1
  /\ readme \in [Workspaces -> {"present", "missing"}]
  /\ dir_exists \in [Workspaces -> BOOLEAN]
  /\ \A w \in Workspaces : readme[w] = "present" => dir_exists[w]
  /\ runs = 1

Fixed == <<original, readable, dir_exists>>

\* run(): os.walk with 'target' pruned, keeping the *.rs files.
RustFiles == {f \in Files : Paths[f] = "src_rs"}

Walk ==
  /\ pc = "walk"
  /\ todo' = RustFiles
  /\ pc' = "files"
  /\ UNCHANGED <<Fixed, content, touched, files_processed, items_documented,
                 ws_i, readme, runs>>

\* run() counts the file, then process_file reads it, finds the items,
\* inserts their docs, counts them and writes the file back.  A file that
\* does not decode raises in read(); the handler prints and moves on.
ProcessFile(f) ==
  /\ pc = "files" /\ f \in todo
  /\ todo' = todo \ {f}
  /\ files_processed' = files_processed + 1
  /\ IF readable[f]
       THEN LET items == FindUndocumented(content[f]) IN
            /\ content' = [content EXCEPT ![f] = Documented(@)]
            /\ items_documented' = items_documented + Len(items)
            /\ touched' = touched \cup {f}
       ELSE UNCHANGED <<content, items_documented, touched>>
  /\ UNCHANGED <<Fixed, pc, ws_i, readme, runs>>

FilesDone ==
  /\ pc = "files" /\ todo = {}
  /\ pc' = "module_docs" /\ ws_i' = 1
  /\ UNCHANGED <<Fixed, content, touched, todo, files_processed,
                 items_documented, readme, runs>>

\* generate_module_docs: a README is written where none exists; open()
\* raises when the workspace directory is missing, ending the run.
ModuleDoc ==
  /\ pc = "module_docs" /\ ws_i <= Len(WsOrder)
  /\ LET w == WsOrder[ws_i] IN
       \/ readme[w] # "missing" /\ ws_i' = ws_i + 1 /\ UNCHANGED <<pc, readme>>
       \/ readme[w] = "missing" /\ dir_exists[w]
          /\ readme' = [readme EXCEPT ![w] = "generated"]
          /\ ws_i' = ws_i + 1 /\ UNCHANGED pc
       \/ readme[w] = "missing" /\ ~dir_exists[w]
          /\ pc' = "crashed" /\ UNCHANGED <<ws_i, readme>>
  /\ UNCHANGED <<Fixed, content, touched, todo, files_processed,
                 items_documented, runs>>

\* The report is printed.
Report ==
  /\ pc = "module_docs" /\ ws_i > Len(WsOrder)
  /\ pc' = "done"
  /\ UNCHANGED <<Fixed, content, touched, todo, files_processed,
                 items_documented, ws_i, readme, runs>>

\* Ctrl-C between two files or two workspaces.
Interrupt ==
  /\ pc \in {"files", "module_docs"}
  /\ pc' = "crashed"
  /\ UNCHANGED <<Fixed, content, touched, todo, files_processed,
                 items_documented, ws_i, readme, runs>>

\* Mutant: the same generator object run again, stats not reset.
RerunKeepsStats ==
  /\ pc \in {"done", "crashed"} /\ runs < MaxRuns
  /\ pc' = "walk" /\ runs' = runs + 1
  /\ todo' = {} /\ ws_i' = 1
  /\ UNCHANGED <<Fixed, content, touched, readme, files_processed, items_documented>>

\* main(): the script is started again on the same project; the new
\* DocumentationGenerator starts with zeroed stats.
Rerun ==
  /\ pc \in {"done", "crashed"} /\ runs < MaxRuns
  /\ pc' = "walk" /\ runs' = runs + 1
  /\ files_processed' = 0 /\ items_documented' = 0
  /\ todo' = {} /\ ws_i' = 1
  /\ UNCHANGED <<Fixed, content, touched, readme>>

Next ==
  \/ Walk \/ \E f \in Files : ProcessFile(f) \/ FilesDone
  \/ ModuleDoc \/ Report \/ Interrupt \/ Rerun

Spec == Init /\ [][Next]_vars

-----------------------------------------------------------------------------
(* Properties *)

TypeOK ==
  /\ pc \in {"walk", "files", "module_docs", "done", "crashed"}
  /\ content \in [Files -> Seq(Kinds)]
  /\ touched \subseteq Files /\ todo \subseteq Files
  /\ files_processed \in 0 .. Cardinality(RustFiles)
  /\ readme \in [Workspaces -> {"present", "missing", "generated"}]
  /\ ws_i \in 1 .. Len(WsOrder) + 1
  /\ runs \in 1 .. MaxRuns

\* What the insertion loop must produce, said without offsets: every line
\* of the original in order, each undocumented public item preceded by
\* the lines of its documentation.
Reference(ls) ==
  FlattenSeq([i \in 1 .. Len(ls) |->
                IF IsPubItem(ls[i]) /\ ~HasDoc(ls, i)
                  THEN DocLines(PubItem[ls[i]]) \o <<ls[i]>>
                  ELSE <<ls[i]>>])

\* process_file's offset arithmetic (insert at item['line'] - 1 + offset,
\* doc lines reversed) puts each doc block right above its item and keeps
\* the rest of the file, and running the script again, after a finished
\* run, a Ctrl-C or a crash in generate_module_docs, adds nothing: every
\* file processed by some run holds the reference documentation of its
\* original content, every other file its original content.
DocumentedAsReference ==
  \A f \in Files :
    content[f] = IF f \in touched THEN Reference(original[f]) ELSE original[f]

PublicItems == DOMAIN PubItem \cup {"pub_async_fn"}

\* The module docstring: rustdoc is generated for every public API item.
\* After a completed run every public item of a processed file has a doc
\* comment right above it.
EveryPublicItemDocumented ==
  pc = "done" =>
    \A f \in touched : \A i \in 1 .. Len(content[f]) :
      content[f][i] \in PublicItems => HasDoc(content[f], i)

\* A doc comment, then only attribute lines, then another doc comment: an
\* item documented twice.
DocAttrDoc(ls) ==
  \E i, j \in 1 .. Len(ls) :
    /\ i + 1 < j /\ ls[i] = "doc" /\ ls[j] = "doc"
    /\ \A k \in i + 1 .. j - 1 : ls[k] = "attr"

\* find_undocumented_items looks for items without documentation: an item
\* that already has a doc comment (above its attributes) is not given a
\* second one.
NoSecondDoc ==
  \A f \in Files : DocAttrDoc(content[f]) => DocAttrDoc(original[f])

=============================================================================
