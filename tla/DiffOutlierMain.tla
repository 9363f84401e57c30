--------------------------- MODULE DiffOutlierMain ---------------------------
(***************************************************************************)
(* DiffOutlierResults.__main__ (lines 135-172) with ediff composed in:     *)
(* os.walk over the vendor tree ROOT_DIR2; for every directory holding an  *)
(* .xml file, rel_root by re.sub, the baseline map loadAllXmlFiles of      *)
(* ROOT_DIR1/rel_root (a recursive walk, entry point -> rules, the last    *)
(* file read winning), then ediff on every file of the directory.  An      *)
(* exception in ediff ends the program.                                    *)
(***************************************************************************)
EXTENDS Integers, Sequences, SequencesExt

CONSTANTS
  None,
  ROOT_DIR1,  \* the baseline (AOSP) tree
  ROOT_DIR2,  \* the vendor tree
  Trees       \* [vendor : set of files, base : set of files];
              \* a file is [dir, name, xml : BOOLEAN, ep, rules]

VARIABLES
  tree,     \* the two directory trees of this run
  dq,       \* the vendor directories os.walk has still to yield
  cdir,     \* the vendor directory of the inner loop
  fq,       \* its files ediff has still to run on
  epoints,  \* loadAllXmlFiles of its baseline counterpart
  mpc,      \* "walk", "files", "ediff", "done", "crashed"
  vfile, aosp, r, a, diffs, annot, pc

mainVars == <<tree, dq, cdir, fq, epoints, mpc>>
ediffVars == <<vfile, aosp, r, a, diffs, annot, pc>>
vars == <<mainVars, ediffVars>>

E == INSTANCE DiffOutlierResults WITH Vendors <- {}, Baselines <- {}
LOCAL P == INSTANCE Paths

EmptyMap == [x \in {} |-> <<>>]

(* lines 164-167: the baseline directory for a vendor directory *)
Counterpart(d) == P!PathJoin(ROOT_DIR1, P!relRoot(ROOT_DIR2, d))

(* os.walk(c) reaches a baseline directory when it is c or below it *)
Under(b, c) ==
  LET top  == IF c # <<>> /\ Last(c) = "/" THEN Front(c) ELSE c
      full == P!WalkRoot(ROOT_DIR1, b.dir)
  IN  full = top \/ IsPrefix(top \o <<"/">>, full)

(* lines 53-61: the xml files in walk order, each one's rules stored under *)
(* its entry point, a later file overwriting an earlier one               *)
loadAllXmlFiles(order) ==
  FoldLeft(LAMBDA m, b : [e \in DOMAIN m \cup {b.ep} |-> IF e = b.ep THEN b.rules ELSE m[e]],
           EmptyMap, order)

VendorDirs(t) == {[dir |-> f.dir] : f \in t.vendor}
FilesIn(d) == {f \in tree.vendor : f.dir = d}

Init ==
  /\ tree \in Trees
  /\ dq \in P!WalkOrders(VendorDirs(tree))
  /\ cdir = <<>> /\ fq = <<>> /\ epoints = EmptyMap
  /\ mpc = "walk"
  /\ vfile = None /\ aosp = EmptyMap /\ r = 1 /\ a = 1 /\ diffs = None
  /\ annot = [k \in {} |-> <<>>] /\ pc = "idle"

(* lines 152-159: a directory without an .xml file is passed over *)
SkipDir ==
  /\ mpc = "walk" /\ dq # <<>>
  /\ \A f \in FilesIn(Head(dq).dir) : ~f.xml
  /\ dq' = Tail(dq)
  /\ UNCHANGED <<tree, cdir, fq, epoints, mpc>> /\ UNCHANGED ediffVars

(* the baseline read from the whole baseline tree, rel_root ignored *)
EnterDirWholeTree ==
  /\ mpc = "walk" /\ dq # <<>>
  /\ LET d == Head(dq).dir
     IN  /\ \E f \in FilesIn(d) : f.xml
         /\ cdir' = d
         /\ \E order \in P!WalkOrders({b \in tree.base : b.xml}) :
              epoints' = loadAllXmlFiles(order)
         /\ fq' \in SetToSeqs(FilesIn(d))
  /\ dq' = Tail(dq) /\ mpc' = "files"
  /\ UNCHANGED tree /\ UNCHANGED ediffVars

(* lines 152-168: the baseline map of the counterpart directory, and the  *)
(* directory's files in listing order                                      *)
EnterDir ==
  /\ mpc = "walk" /\ dq # <<>>
  /\ LET d == Head(dq).dir
     IN  /\ \E f \in FilesIn(d) : f.xml
         /\ cdir' = d
         /\ \E order \in P!WalkOrders({b \in tree.base : b.xml /\ Under(b, Counterpart(d))}) :
              epoints' = loadAllXmlFiles(order)
         /\ fq' \in SetToSeqs(FilesIn(d))
  /\ dq' = Tail(dq) /\ mpc' = "files"
  /\ UNCHANGED tree /\ UNCHANGED ediffVars

(* lines 171-172: ediff on the next file; etree.parse raises on a file   *)
(* that is not XML, which ends the program                                 *)
StartEdiff ==
  /\ mpc = "files" /\ fq # <<>>
  /\ LET f == Head(fq)
     IN  IF f.xml
         THEN /\ vfile' = [ep |-> f.ep, rules |-> f.rules] /\ aosp' = epoints
              /\ r' = 1 /\ a' = 1 /\ diffs' = None
              /\ annot' = [k \in {} |-> <<>>] /\ pc' = "rule"
              /\ mpc' = "ediff"
         ELSE mpc' = "crashed" /\ UNCHANGED ediffVars
  /\ fq' = Tail(fq)
  /\ UNCHANGED <<tree, dq, cdir, epoints>>

EdiffStep ==
  /\ mpc = "ediff" /\ E!Next
  /\ UNCHANGED mainVars

(* ediff returned, or raised (the TypeError of line 111) *)
EdiffReturn ==
  /\ mpc = "ediff" /\ pc \in {"written", "crashed"}
  /\ mpc' = IF pc = "written" THEN "files" ELSE "crashed"
  /\ UNCHANGED <<tree, dq, cdir, fq, epoints>> /\ UNCHANGED ediffVars

DirDone ==
  /\ mpc = "files" /\ fq = <<>>
  /\ mpc' = "walk"
  /\ UNCHANGED <<tree, dq, cdir, fq, epoints>> /\ UNCHANGED ediffVars

Finish ==
  /\ mpc = "walk" /\ dq = <<>>
  /\ mpc' = "done"
  /\ UNCHANGED <<tree, dq, cdir, fq, epoints>> /\ UNCHANGED ediffVars

Next == SkipDir \/ EnterDir \/ StartEdiff \/ EdiffStep \/ EdiffReturn \/ DirDone \/ Finish
Spec == Init /\ [][Next]_vars

-----------------------------------------------------------------------------
(* Spec 4.6, inside the directory loop: when the scan of a vendor rule    *)
(* ends, diffs is exactly the set of diffs against the baseline rules of  *)
(* the same entry point.                                                   *)
DiffsAsSpecified == mpc = "ediff" => E!DiffsAsSpecified

(* Lines 164-168 map the vendor directory to its baseline with re.sub,   *)
(* os.path.join and a recursive loadAllXmlFiles: the baseline rules ediff  *)
(* gets for the vendor file's entry point are those of an .xml file of     *)
(* that entry point in the vendor directory's mirror under ROOT_DIR1 or in *)
(* a subdirectory of it, never from another part of the baseline tree,    *)
(* and there are none only when that subtree has no such file.            *)
Mirror(b) == b.xml /\ b.ep = vfile.ep /\ IsPrefix(cdir, b.dir)
BaselineFromMirror ==
  mpc = "ediff" =>
    /\ (vfile.ep \in DOMAIN aosp) = (\E b \in tree.base : Mirror(b))
    /\ vfile.ep \in DOMAIN aosp => \E b \in tree.base : Mirror(b) /\ b.rules = aosp[vfile.ep]

(* The comment of line 163, "Parse same directory in ROOT_DIR1": the      *)
(* baseline rules ediff gets for the vendor file's entry point are those  *)
(* of an .xml file of that entry point in the same directory of ROOT_DIR1, *)
(* and there are none when that directory has no such file.               *)
SameDir(b) == b.xml /\ b.ep = vfile.ep /\ b.dir = cdir
BaselineFromSameDir ==
  mpc = "ediff" =>
    /\ (vfile.ep \in DOMAIN aosp) = (\E b \in tree.base : SameDir(b))
    /\ vfile.ep \in DOMAIN aosp => \E b \in tree.base : SameDir(b) /\ b.rules = aosp[vfile.ep]
=============================================================================
