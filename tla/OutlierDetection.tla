-------------------------- MODULE OutlierDetection --------------------------
(***************************************************************************)
(* The batch driver OutlierDetection.py: os.walk over ROOT_DIR, and for    *)
(* every .csv file fv.create (FV.pickle, FV.csv) then od.runForAll (one    *)
(* "%d.txt" and one "%d.xml" per entry point that has rules), each into a  *)
(* directory named after the file's path relative to ROOT_DIR.  Paths are  *)
(* sequences of one-character strings and "/" ; a prefix such as          *)
(* "AOSP_FEATUREVECS_SINGLE" or a file name is one element.  What the      *)
(* analysis finds for a file is abstracted to the set of labels that get   *)
(* rules (FreqItemsets is modelled in its own module).  The disk persists  *)
(* across runs of the program: nothing in the code removes an output.      *)
(***************************************************************************)
EXTENDS Integers, Sequences, SequencesExt, FiniteSets, TLC

CONSTANTS ROOT_DIR,          \* sys.argv[1], also used as the pattern of re.sub
          OUTPUT_DIRECTORY,  \* DockerConfig.OUTPUT_DIRECTORY
          Files,             \* [dir : Seq(name), stem : name, csv : BOOLEAN]
          Labels,            \* the label ids "%d" that can get rules
          Runs               \* how many times the program is run

VARIABLES run,      \* the number of the current run of the program
          rulesOf,  \* this run: the labels of each .csv file that get rules
          queue,    \* the files os.walk has still to yield, in order
          disk,     \* [dir |-> path, name |-> file name] -> who wrote it
          pc,       \* "idle" between runs, "walk" inside the loop
          crashed   \* the runs that ended with an exception

vars == <<run, rulesOf, queue, disk, pc, crashed>>

CsvFiles == {f \in Files : f.csv}

LOCAL P == INSTANCE Paths

(* lines 29-31: rel_root *)
relRoot(dir) == P!relRoot(ROOT_DIR, dir)
PathJoin(a, b) == P!PathJoin(a, b)

(* lines 35, 48, 49: <base>/<prefix>/<rel_root>/<filename_wo_ext> *)
OutDir(prefix, f) ==
  PathJoin(PathJoin(PathJoin(OUTPUT_DIRECTORY, <<prefix>>), relRoot(f.dir)), <<f.stem>>)

FVDir(f)  == OutDir("FEATUREVECS_SINGLE", f)
ResDir(f) == OutDir("inconsistency_analysis_all", f)
XmlDir(f) == OutDir("inconsistency_analysis_all_xml", f)

TxtOf(f, k) == [dir |-> ResDir(f), name |-> <<k, "txt">>]
XmlOf(f, k) == [dir |-> XmlDir(f), name |-> <<k, "xml">>]

(* The files one iteration writes: createFV's pickle and CSV, then for    *)
(* every label with rules checkConsistency's writeRegularFile and dumpXml. *)
Written(f, ks) ==
  {[dir |-> FVDir(f), name |-> <<"FV", n>>] : n \in {"pickle", "csv"}}
  \cup {TxtOf(f, k) : k \in ks} \cup {XmlOf(f, k) : k \in ks}

WalkOrders == P!WalkOrders(Files)

Init ==
  /\ run = 0
  /\ rulesOf = [f \in CsvFiles |-> {}]
  /\ queue = <<>>
  /\ disk = [x \in {} |-> {}]
  /\ pc = "idle"
  /\ crashed = {}

(* A run of the program (lines 12-25) on the tree as it is now: the       *)
(* contents of the .csv files may have changed since the last run.        *)
Start ==
  /\ pc = "idle"
  /\ run < Runs
  /\ run' = run + 1
  /\ rulesOf' \in [CsvFiles -> SUBSET Labels]
  /\ queue' \in WalkOrders
  /\ pc' = "walk"
  /\ UNCHANGED <<disk, crashed>>

(* line 28: a file that is not a .csv is passed over *)
SkipFile ==
  /\ pc = "walk"
  /\ queue # <<>>
  /\ ~Head(queue).csv
  /\ queue' = Tail(queue)
  /\ UNCHANGED <<run, rulesOf, disk, pc, crashed>>

(* Lines 29-50 for one .csv file: fv.create, then od.runForAll. *)
AnalyseFile ==
  /\ pc = "walk"
  /\ queue # <<>>
  /\ Head(queue).csv
  /\ LET f == Head(queue)
     IN  disk' = [p \in Written(f, rulesOf[f]) |-> [file |-> f, run |-> run]] @@ disk
  /\ queue' = Tail(queue)
  /\ UNCHANGED <<run, rulesOf, pc, crashed>>

(* the walk is over and the program exits *)
Exit ==
  /\ pc = "walk"
  /\ queue = <<>>
  /\ pc' = "idle"
  /\ UNCHANGED <<run, rulesOf, queue, disk, crashed>>

(* dumpXml (FreqItemsets.py 441-443) raises for label k -- qsm.query on    *)
(* the source-method database, or lxml rejecting a name -- after          *)
(* writeRegularFile wrote k's .txt: the labels checkConsistency finished   *)
(* before k have both files, and the exception ends the program.          *)
CrashInDumpXml ==
  /\ pc = "walk"
  /\ queue # <<>>
  /\ Head(queue).csv
  /\ LET f == Head(queue)
     IN  \E k \in rulesOf[f], before \in SUBSET rulesOf[f] :
           /\ k \notin before
           /\ disk' = [p \in Written(f, before) \cup {TxtOf(f, k)} |->
                          [file |-> f, run |-> run]] @@ disk
  /\ crashed' = crashed \cup {run}
  /\ queue' = <<>>
  /\ pc' = "idle"
  /\ UNCHANGED <<run, rulesOf>>

Next == Start \/ SkipFile \/ AnalyseFile \/ Exit \/ CrashInDumpXml

Spec == Init /\ [][Next]_vars

-----------------------------------------------------------------------------
(* The comment on line 29 says re.sub removes the initial path, so each   *)
(* input file has output directories of its own: within one run, no file  *)
(* the loop writes for one input file is overwritten by the iteration of   *)
(* another input file.                                                     *)
NoResultOverwritten ==
  [][\A p \in DOMAIN disk :
       disk[p].run = run /\ p \in DOMAIN disk' => disk'[p].file = disk[p].file]_vars
=============================================================================
