# TLA+ models of the ACMiner outlier-detection pipeline

This directory holds TLA+ models of `src/outlierdetection`, checked with TLC.
They cover the Python 2 batch pipeline that mines authorization-check patterns
across Android entry points and reports outliers.

## 1. The system

The pipeline is sequential. `OutlierDetection.py` walks a directory of CSV logs.
For each log it runs three stages:

1. **ControlPredicateParser** (`parsers/ControlPredicateParser.py`).
   - Reads the log line by line, as a character-level state machine over backticks, `;`, `,`, `{` and `}`.
   - Builds a map from each entry point to its predicates. A predicate is a string or a sorted pair.
2. **FeatureVecCreator** (`FeatureVecCreator.py`).
   - Collects the distinct predicates (`fvValues`). Pairs `(a, a)` are dropped.
   - Gives each value `v` two codes: `cpred-i` and `N_cpred-i`.
   - Writes one CSV row per entry point and pickles the maps.
   - Its own `IGNORE_ARGS` is False, so raw predicates are the grouping key.
3. **FreqItemsets** (`FreqItemsets.py`, `runForAll`).
   - `loadData` reads the CSV. It codes every present predicate by first appearance, with `N_` codes dropped.
   - `loadAndStrip` compresses: every group of two or more codes that occur in exactly the same transactions becomes one composite code, appended to each transaction in that group.
   - `eclat` (pyfim) mines closed frequent itemsets, with support ≥ 2 and size ≥ 2.
   - For every non-empty transaction (the *target*), `checkConsistency` runs:
     - `getAssocRules` scores candidate rules. It skips the target's own first copy when counting, and ranks candidates by (jaccard, confidence, support, (lhs, rhs)).
     - `decodeAssocRule` expands codes back to predicates. It groups them by the canonical form from `MethodFilter.simplifyPredicate`, and applies the empty-rule and ratio ≥ 5 filters.
     - A redundancy filter drops a rule whose raw consequent is a subset of an accepted one.
     - The surviving rules go to `dumpXml` and `writeRegularFile`.
   - `PARALLELIZE` is False, so targets are processed one after another.

Alongside the pipeline:

- **MethodFilter** (`parsers/MethodFilter.py`) is the canonicalizer.
  - `parseMethod` replaces a method call's argument list with `(...)`.
  - Signatures on the allow-list keep some arguments instead:
    - the first argument, for permission checks;
    - the 2nd, 4th, 5th, 4th and 5th, or 8th argument, for the listed lifecycle methods.
  - The kept arguments are found by `getFirstArgInternal`, a character scanner, and helpers that call it repeatedly.
- **DiffOutlierResults** (`DiffOutlierResults.py`) walks the vendor tree `ROOT_DIR2`. For every directory that holds an `.xml` file, it loads the baseline (AOSP) rules of the mirror directory under `ROOT_DIR1` with `loadAllXmlFiles`, then runs `ediff` on every file of the directory. `ediff` compares each vendor rule with the baseline rules of the same entry point, attaches the diffs to the vendor XML and rewrites the file.
- **EntrypointDiff** (`EntrypointDiff.py`) reads the pickle that FeatureVecCreator wrote. It compares the feature-vector rows of two entry points and writes the shared and the one-sided predicates as XML.
- **ACMinerQuery** and **genHtml** call external Java tools.

## 2. Modules

| Module | Models | State | Actions |
|---|---|---|---|
| `FreqItemsets` | `runForAll`: `loadData`, `loadAndStrip`, `eclat`, `getAssocRules`, `decodeAssocRule`, `checkConsistency` | `db` (the input), `idMap`, `trans`, `groups` (the groups `loadAndStrip` has not yet applied), `mined`, `tgt`, `pending` (itemsets not yet scanned), `res`, `ranked`, `rules`, `out`, `pc` | `loadData`; `loadAndStrip` (one step per group, any dict order); `Mine`; `AssocReturn`, `AssocContinue`, `AssocRule` (one step per itemset, any order); `RankRules`; `DecodeAccept`, `DecodeDrop`; `FinishTarget` |
| `MCFreqItemsets` | bounded inputs | | |
| `MethodFilter` | `detectMethod`, `parseMethod`, `getFirstArgInternal`, `getSecondArg`, the chained `getFourthArg`, `getFifthArg`, `getFourthAndFifthArgs` and `getEigthArg` | `name`, `out` | `Simplify` (a single predicate through `simplifyPredicate` with `IGNORE_ARGS`) |
| `MCMethodFilter` | argument lists printed from each parameter type | | |
| `ControlPredicateParser` | `parseControlPredicates` | `log` (the structured lines, history only), `input` (their text), `ln`, `i`, the flags `inSymbol`, `firstSymbol`, `isEntryPoint`, the buffers `sb`, `sb2`, `entryPoint`, `out`, `phase` | `ReadLine` (skip or per-line reset), `Backtick`, `Separator`, `Punctuation`, `SymbolChar` (one branch of the character loop each), `Finish` |
| `MCControlPredicateParser` | logs over a five-character alphabet | | |
| `ItemEncoder` | the abstract encoder of spec §4.2 | `entryPoints`, `enc` | `Build` (one step) |
| `FeatureVecCreator` | `createFV`: `getFeatVecValues`, `createIdMap`, `createLabIdMap`, `createFeatureVector`, `dumpCSV`, plus the reader in `FreqItemsets.runForAll` (`loadData`, `fvinv_map`, `labinv_map`) | `entryPoints`, `pc`, `fvValues`, `fvidmap`, `labidmap`, `epOrder`, `featureVector`, `labels`, `csv` | `GetFeatVecValues`, `IdMapStep`, `CreateLabIdMap`, `CreateRow` (one per entry point), `DumpCSV` |
| `EntrypointDiff` | `fv.create` (the parser, then `createFV`, both by `INSTANCE`) followed by `EntrypointDiff.__main__` | the parser's and `FeatureVecCreator`'s variables, and `ediff` | `ParseStep`, `CreateFVStep`, `DiffEntrypoints` |
| `MCEntrypointDiff` | the parser's logs, with `z` as an unknown name | | |
| `DiffOutlierResults` | `ediff` | `vfile`, `aosp`, `r`, `a`, `diffs`, `annot`, `pc` | `StartRule`, `Scan` (one baseline rule), `ScanEnd`, `Attach`, `Write` |
| `MCDiffOutlierResults` | vendor and baseline rule lists | | |
| `DiffOutlierMain` | `DiffOutlierResults.__main__` and `loadAllXmlFiles`, with `ediff` by `INSTANCE` | `tree` (both trees), `dq` (the vendor directories still to come), `cdir`, `fq` (its files still to come), `epoints` (the loaded baseline), `mpc`, and `ediff`'s variables | `SkipDir`, `EnterDir`, `StartEdiff`, `EdiffStep` (one `ediff` step), `EdiffReturn`, `DirDone`, `Finish` |
| `MCDiffOutlierMain` | one-directory trees with all rule lists, and nested trees | | |
| `Paths` | `re.sub` of the root, `os.path.join`, `rel_root` and the orders of `os.walk`, shared by both directory loops | | |
| `OutlierDetection` | the driver `OutlierDetection.py` and the files `fv.create` and `runForAll` write | `run`, `rulesOf` (the labels of each `.csv` that get rules this run), `queue` (what `os.walk` has still to yield), `disk` (each output file and the iteration that wrote it), `pc`, `crashed` | `Start`, `SkipFile`, `AnalyseFile`, `CrashInDumpXml`, `Exit` |
| `MCOutlierDetection` | a four-directory tree under `a` | | |

### How FreqItemsets follows the code

- `loadData` is one action, and so is each iteration of `loadAndStrip`'s loop.
  - A composite gets index `Len(idMap) + 1`, and its code is appended at the end of each transaction's list, as `elements[index].append` does.
  - The group applied next is chosen freely, because the code iterates over a dict.
- `eclat` is modelled by its definition: closed itemsets of support ≥ `MIN_SUPPORT` and size ≥ `MIN_ITEMSET_SIZE`.
- `getAssocRules` is one action per itemset, chosen freely because the miner returns them in arbitrary order. The outcome of each itemset follows the code's exits in order:
  - `target == iset` returns `[]`;
  - an empty rhs or a jaccard of 0 continues;
  - the confidence division may raise;
  - `conf < minconf` continues;
  - the lift division may raise;
  - otherwise a candidate is kept.

  A ZeroDivisionError aborts the run. It is modelled as an outcome that enables no action, so the run stops and the invariant `NoDivisionByZero` reports it.
- Ratios are exact `[n, d]` records compared by cross-multiplication. The operands are small counts, so Python's float comparisons agree with them.
- `simplifyPredicate` is the constant `Canon` in this module. `MethodFilter` models it separately.

### How MethodFilter follows the code

- A predicate is a sequence of one-character strings, and positions are Python's, counted from 0.
- The leading method signature is one symbol, a key of `Kind`. Soot signatures contain exactly one `>`, so that symbol holds the first `>` of the predicate.
- A nested signature inside the arguments is written `<`, `m`, `>`, where `m` stands for its body. That body's parentheses are balanced, and no scan looks inside it.
- Every branch of `getFirstArgInternal` is translated with its exact end offset:
  - a quote;
  - `<` followed by a parenthesised group;
  - `ALL`;
  - a run of digits, whose end stays 0 for a single digit.
- The helpers chain those offsets exactly as the code does (`NthCall`). Slices are stripped for the first four calls and not after.
- A TypeError (`str + None`, `None + 1`) or an IndexError is the value `Crash`.
- The reference `RefArg` splits the argument list at commas outside quotes and outside parentheses, as spec §4.1 describes.

### How ControlPredicateParser follows the code

- Each iteration of the character loop is one action. The action is chosen by the same tests, in the same order, as the `if/elif` chain at lines 24-55.
- A TLA+ string cannot hold a backtick, so the backtick character is the token `BQ`.
- `StrLess` is Python's `<` on strings, with `Rank` giving each character's code point. `SortedPair` is `tuple(sorted([sb, sb2]))`.
- The log text is generated from structured lines (`RenderLine`: the entry point, then `;` and a single or a `{x,y}` pair per predicate). The structure is kept in `log`, which only the properties read.

### How FeatureVecCreator and EntrypointDiff follow the code

- A code `cpred-i` is `[neg |-> FALSE, id |-> i]` and `N_cpred-i` is `[neg |-> TRUE, id |-> i]`. A label `funct_i` is `[funct |-> i]`. No code or label contains a comma, so a CSV row is the sequence of its fields.
- `getFvValString` builds the real key strings, backticks included. `createIdMap` is a fold over the values, in which a later key overwrites an equal earlier one.
- `fvValues` is listed in any order, because it is a Python set. The `entryPoints` dict order is also chosen freely, once: `createLabIdMap` and the row loop both walk the same unchanged dict.
- `IGNORE_ARGS` is False, so `getSimplifiedVal` is the identity, as the code makes it.
- The pickle is an exact round trip. The reader uses the maps as they were written.
- `EntrypointDiff` is the `FeatureVecCreator` spec followed by one `DiffEntrypoints` step.
  - `getIndex` exits on an unknown name.
  - The partition loop of lines 106-114 is a fold.
  - `writeXml` writes each code as `dumpControlPredXml` does: the value string split on backticks, without `,` and empty parts.

### How OutlierDetection follows the code

- Paths are sequences of one-character strings and `"/"`. A prefix such as `AOSP_FEATUREVECS_SINGLE` or a file name is one element, since only the characters of `ROOT_DIR` and of directory names matter to `re.sub`.
- `ReSub`, `PathJoin`, `relRoot` and `WalkOrders` are defined in `Paths`, which `DiffOutlierMain` uses too. `ReSub` is `re.sub(ROOT_DIR, '', root)`: every non-overlapping match, left to right, with `.` matching any character. `relRoot` then strips one leading `/` (lines 30-31).
- `PathJoin` is `os.path.join`: an absolute second part discards the first. `OutDir` is the triple join of lines 35, 48 and 49.
- `WalkOrders` are the orders `os.walk` can yield files in: a directory's files before its subdirectories', each subtree to the end before the next, sibling order free.
- `AnalyseFile` is one whole iteration: `FV.pickle` and `FV.csv`, then for each label that gets rules its `%d.txt` and `%d.xml`. What FreqItemsets finds is abstracted to `rulesOf`, chosen anew at every `Start`, since the logs can change between runs.
- `CrashInDumpXml` is `dumpXml` raising after `writeRegularFile` wrote the label's `.txt`. It can raise in `qsm.query` on the source-method database, or when lxml rejects a name. The exception ends the program.
- `disk` is never cleared, because the code never removes an output.

### How DiffOutlierResults follows the code

- A rule is the item lists that `fetchItems` returns, duplicates kept. Sets are compared with `set(...)`, as in the code.
- `Scan` is one iteration of the inner loop. An exact consequent match sets `diffs` to None and breaks.
- `Attach` is lines 108-129. The `rule_diff` element gets `{"rule_id": aidcounter}`, an int, which lxml rejects with a TypeError. A non-empty `diffs` therefore ends the run in `crashed`.

### How DiffOutlierMain follows the code

- A file is `[dir, name, xml, ep, rules]`. `dir` is a list of directory names, `xml` says whether the name ends in `.xml`, and `ep` and `rules` are what `loadXml` returns for it.
- `Init` picks the two trees and one `os.walk` order of the vendor directories (`Paths!WalkOrders`).
- `SkipDir` is a directory without an `.xml` file (lines 153-158).
- `EnterDir` is lines 159-166:
  - `Counterpart` is `os.path.join(ROOT_DIR1, rel_root)`, with `rel_root` from `Paths`;
  - `Under` is what `os.walk` of that directory reaches: the directory and everything below it;
  - `loadAllXmlFiles` folds the reached `.xml` files in a walk order, a later file of the same entry point overwriting an earlier one;
  - the directory's files are listed in any order.
- `StartEdiff` is the call at line 170. A file that is not XML makes `etree.parse` raise, which ends the program.
- `EdiffStep` is one step of `DiffOutlierResults` (`E!Next`). `EdiffReturn` goes back to the file loop when `ediff` wrote the file, and ends the program when it raised.

### Refinement

`EntrypointDiff` instantiates `ItemEncoder` with the mapping:

- `entryPoints <- LogMeaning(log)`, what the whole log says (the parser's reference `Expected`);

- `enc <- IF pc = "done" THEN FVC!Decoded ELSE None`
- `Key <- FVC!getFvValString`

`Decoded` reads the CSV back the way `runForAll` does:

- `loadData` drops the codes that start with `N_`;
- `fvinv_map` and `labinv_map` invert the pickled maps.

The property `EncoderRefinement == Abs!Spec` therefore says that every step of the parser, of `createFV` and of the diff is either a stuttering step of the abstract encoder or its single `Build` step. In other words, the written data decodes to exactly each entry point's predicates, without the self pairs.

## 3. Runs

| Run | Config | Expect | What it shows |
|---|---|---|---|
| freqitemsets_core | `MCFreqItemsets.cfg` | pass | The safety invariants hold for every small input, in every order of groups and itemsets: `StripLossless`, `ListEqualityIsSetEquality`, `ConfidenceOverOtherEntryPoints`, `NoDivisionByZero`. |
| assoc_rules_spec | `MCFreqItemsets_AssocRulesMatchSpec.cfg` | violation | A target that is itself a mined closed itemset loses all its rules. Spec §4.3 says to skip only that itemset. |
| redundancy_keys | `MCFreqItemsets_RedundancyOnConsequentKeys.cfg` | violation | The redundancy filter works on raw consequents, not on the true-consequent keys of spec §4.5. |
| methodfilter_first_arg | `MCMethodFilter.cfg` | pass | The first-argument allow-list and the default branch keep exactly the right argument. |
| methodfilter_nth_args | `MCMethodFilter_NthArgs.cfg` | violation | The 4th, 5th, 4th-and-5th and 8th argument helpers return the wrong argument. An example is the repository's own test case `handleIncomingUser(-1, 1000, -1, 1, 0, ...)`, which gives `1, 1` instead of `1, 0`. |
| parser_overwrite | `MCControlPredicateParser_Overwrite.cfg` | violation | `PredicatesNeverLost`: a line holding only an entry point that was already seen resets its predicates to `[]` (line 30). |
| methodfilter_quoted_paren | `MCMethodFilter_QuotedParen.cfg` | violation | `ArgListMasked`: for `putString(<f>, ")", 12)`, the depth scan stops at the quoted `)`, and `", 12)` leaks into the canonical form. |
| entrypointdiff_partition | `MCEntrypointDiff.cfg` | pass | The composed pipeline, from the log text to the XML diff. `ParsedAsWritten`: after every line, `out` holds each entry point with the predicates its lines list, in order and with pairs sorted. `EncoderRefinement` (the refinement above), from what the log means. `DiffMatchesPredicates`: the XML lists exactly the predicates both entry points have and those only one has, and an unknown entry point exits. |
| ediff_main | `MCDiffOutlierMain.cfg` | pass | The directory loop with `ediff` composed in. `DiffsAsSpecified`: when the scan of a vendor rule ends, `diffs` is exactly the set of spec §4.6 diffs. An exact match anywhere discards the diffs collected before it. `BaselineFromMirror`: through `re.sub`, `os.path.join` and the recursive load, the baseline rules `ediff` gets for an entry point come from an `.xml` file of that entry point in the mirror subtree of the vendor directory, never from another part of `ROOT_DIR1`, and there are none only when that subtree has no such file. This holds in every walk and listing order. |
| ediff_same_dir | `MCDiffOutlierMain_SameDir.cfg` | violation | `BaselineFromSameDir`: the comment of line 163 says the same directory is parsed in `ROOT_DIR1`. Because `loadAllXmlFiles` is recursive, the vendor files of `x` are compared with the rules of baseline `x/y` when `x` itself has none. When both have the entry point, `x/y` is read later and wins. |
| ediff_written | `MCDiffOutlierResults_Written.cfg` | violation | `AnnotatedFileWritten` (liveness, under weak fairness): the first rule with a diff raises TypeError at line 111, so the vendor file is never rewritten. |
| driver_collision | `MCOutlierDetection_Collision.cfg` | violation | `NoResultOverwritten`: `a/ab` and `a/b` both give rel_root `b`, so the second file's outputs overwrite the first's in the same run. The comment on line 29 promises only the initial path is removed. |

Every property of a passing run has a mutant in `PROJECT.json`: a plausible bug that TLC then catches.

- The mutants are:
  - codes counted from 0;
  - skipping every copy of the target;
  - `setAContainsB` with its arguments swapped;
  - the composite index read off by one;
  - the composite prepended instead of appended;
  - the closing backtick of a line not storing its last single predicate;
  - `createIdMap` giving the absent code the present code's value;
  - the partition testing the second row's `N_` prefix instead of the first's;
  - the exact-match break keeping the diffs found before it;
  - the sibling copy of `getFirstArg` in `FeatureVecCreator.py`, which stops at the `>` of a nested call;
  - the baseline loaded from the whole of `ROOT_DIR1`, with `rel_root` ignored.

### Bounds

**FreqItemsets** (`MCFreqItemsets`) uses eight predicates. `a1`/`a2` and `x1`/`x2` share a canonical key. The inputs are:

- every 4-entry-point input over `{a1, a2, b}`;
- every 5-entry-point input over `{a1, b}`;
- three hand-built inputs:
  - `NestedDB`: nested co-occurrence groups;
  - `VariantDB`: variants with the same canonical key;
  - `BroadDB`: a rule wide enough for the ratio ≥ 5 filter.

Together these reach:

- targets equal to a closed itemset;
- duplicate targets;
- composites in several orders;
- empty antecedents;
- all decode filters.

`MIN_CONF` is the code's 0.85, and support and size are the code's 2 and 2.

**MethodFilter** (`MCMethodFilter`) builds argument lists token by token, with the tokens each parameter type is printed as. The tokens include:

- quoted strings;
- nested calls with and without arguments;
- fields, `ALL` and `NULL`;
- single and multi-digit numbers, and negative numbers.

Every allow-list branch is covered with its signature's real arity, up to the 12 arguments of `checkStartAnyActivityPermission`.

**ControlPredicateParser** (`MCControlPredicateParser`) uses two entry points, `e` and `f`. Names are built from `a`, `b` and `,`:

- `a` is a prefix of `ab`, which tests the sort;
- `a,` puts a comma inside backticks.

The logs are one line with up to two predicates, or a line, a blank line and a second line, of either entry point, each with up to one predicate. Predicates are any of 3 singles and 9 pairs, including unsorted and self pairs. The violation run takes the logs in which an entry-only line follows a full line of the same entry point.

**EntrypointDiff** (`MCEntrypointDiff`) runs the whole pipeline on the parser's well-formed logs: the 483 logs of `MCControlPredicateParser` without an entry-only line after a full one. Their values include self pairs, unsorted pairs and a comma inside a name. Every set and dict order is explored. Every pair of names is diffed, including the same name twice and the unknown name `z`.

**OutlierDetection** (`MCOutlierDetection`) has `ROOT_DIR` `a`, with `x.csv` in `a`, `a/b`, `a/ab` and `a/a/b`, and a non-csv file in `a/b`.

- `a/ab` collides with `a/b`, and `a/a/b` escapes to `/b`.
- One label and two runs reach a stale result: a label with rules in the first run and none in the second.
- All 12 walk orders are explored.

**DiffOutlierResults** (`MCDiffOutlierResults`) uses one or two vendor rules and zero to two baseline rules, or a baseline without the entry point.

- Antecedents come from `[x]`, `[x, x]` and `[y]`. The duplicate has the same set as `[x]`.
- Consequents come from `[]`, `[x]`, `[y]` and `[x, y]`.

This puts an exact match both before and after a differing rule with the same antecedent.

**DiffOutlierMain** (`MCDiffOutlierMain`) has `ROOT_DIR1` `b` and `ROOT_DIR2` `v`. Its trees are of two kinds:

- One vendor file and one optional baseline file, both in the root, with the rule lists of `MCDiffOutlierResults`. These keep every comparison of `ediff`.
- Nested trees. The vendor side has `x`, `x/y` and `z`, where `z` holds only a non-XML file, with or without a non-XML file in `x`. The baseline side has any of `x`, `x/y`, `z`, a second file of the same entry point in `x/y`, and a file of another entry point in `x`. Each baseline file's rules either match the vendor's or differ from them.

These trees reach a mirror directory that has a subdirectory, a baseline file outside the mirror, the last-wins load in both orders, a skipped directory, a non-XML file, and both the written and the crashed ends of `ediff`. The root names do not occur in the directory names. The `re.sub` collision is the driver's code and is shown in `driver_collision`.

### Fairness

- Every component is a sequential batch: `runForAll` has `PARALLELIZE = False`, and each script is a single loop.
- The safety runs use no fairness. Their configs set `CHECK_DEADLOCK FALSE` because the program really stops at the end of its input, or at an exception.
- `ediff_written` uses `FairSpec == Spec /\ WF_vars(Next)`. This is justified because the interpreter takes the next step whenever one is enabled. Under that assumption, the run still stops in `crashed`, so the file is never written.

## 4. Not modelled

- XML and HTML writing and parsing: `dumpXml`, `writeRegularFile`, `loadXml`, genHtml.
  - `fetchItems` expects `all_items` and `full_item` children, which `dumpXml` never writes. The files `DiffOutlierResults` reads must therefore come from another producer, such as the XSLT results named in its usage text.
- The ACMinerQuery subprocess.
- In the driver, other regular-expression characters of `ROOT_DIR` than `.`. The `sys.exit(0)` in `runForAll` when `eclat` returns None is also left out, because pyfim returns a list.
- Canonicalizing the output of `MethodFilter`'s second-argument branch raises a TypeError, against the idempotence that spec §3 and §8 claim. The code never canonicalizes a canonical form twice, and no run is left for that case.
- The driver's stale and orphaned result files (a label that loses its rules on a rerun keeps its old `.txt` and `.xml`; `dumpXml` raising leaves a `.txt` without its `.xml`). `OutlierDetection` models both, through reruns over the old disk and `CrashInDumpXml`, but no run is left for a property about them.
- `runForEPointGroups`, which is not called from `__main__`.
- The pair branch of `simplifyPredicate`.

## 5. Plan

1. Extend the composition from `ControlPredicateParser` and `FeatureVecCreator` into `FreqItemsets.loadData`.
2. `Canon` taken from `MethodFilter` instead of a constant.
3. A liveness check of the composed encoder, once it can be checked in time. Weak fairness over the `INSTANCE`d actions was too slow for TLC.
4. `MethodFilter`: the pair branch of `simplifyPredicate`.
5. A run about the driver's stale and orphaned result files, once a run slot is free.
