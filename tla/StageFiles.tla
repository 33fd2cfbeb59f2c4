----------------------------- MODULE StageFiles -----------------------------
(***************************************************************************)
(* The files that reconfig_glidein publishes in the stage area: how a      *)
(* reconfiguration reads the tree of the previous one, decides which files *)
(* it may keep (creation/lib/cgWDictFile.py, cWDictFile.py), and writes    *)
(* the new tree file by file, the summary signatures.sha1 last.            *)
(*                                                                         *)
(* The names in the stage area carry the time stamp of the run that wrote  *)
(* them, except those of the "nocache" files, which are rewritten under    *)
(* one name and are not signed (and those of the HTCondor tarballs, which  *)
(* carry a hash of the content and are left out).  Running glideins go on  *)
(* downloading the tree they were submitted with.  A write is an open that *)
(* truncates and a write that fills, and a run may stop between any two of *)
(* its steps.                                                              *)
(*                                                                         *)
(* Bounds: MaxRuns reconfigurations, MaxFailures of them interrupted.  The *)
(* four file lists are one list, vars, untar_cfg and gridmap are treated   *)
(* as consts is, and there is one entry.                                   *)
(***************************************************************************)
EXTENDS Integers

CONSTANTS
    Confs,        \* the configurations: the content of the files of each area
    MaxRuns,      \* reconfigurations (bound)
    MaxFailures   \* interrupted reconfigurations (bound)

Areas == {"main", "entry"}
ListedFiles == {"consts", "script", "live"}   \* the files named in the list

ASSUME StageAssumption ==
    /\ \A c \in Confs : DOMAIN c = Areas /\ \A a \in Areas : DOMAIN c[a] = ListedFiles
    /\ MaxRuns \in Nat /\ MaxFailures \in Nat

Stamps == 0 .. MaxRuns + 1     \* TIMESTR; the fresh install has stamp 1, 0 is none

Missing == <<"missing">>       \* no such file
Torn    == <<"torn">>          \* truncated by the open, not (fully) written
Written(c) == c \notin {Missing, Torn}

Installed == 1

VARIABLES
    stage,      \* the stage area: content of each area, file key and stamp
    summary,    \* signatures.sha1: per area the description's stamp and the
                \* hash of the signature file (here: that file's content)
    runs,       \* reconfigurations started
    failures,   \* of which interrupted
    conf,       \* configuration of the last run
    status,     \* "done", "writing" or "failed": the last run
    names,      \* stamps of the last run's files, per area and key
    saved,      \* its place in the order of the files it writes
    opened,     \* the file there has been truncated, not written yet
    complete    \* configuration and summary of the last completed run

stageVars == <<stage, summary, runs, failures, conf, status, names, saved, opened, complete>>

StageKeys == ListedFiles \cup {"list", "description", "signature"}

(* Mutant of Immutable: the unsigned files are signed too. *)
ImmutableAll == ListedFiles

\* get_immutable_files
Immutable == ListedFiles \ {"live"}

-----------------------------------------------------------------------------
(* Contents.  Two contents are equal iff their hashes are, so that a       *)
(* signature file holds contents where the code holds SHA1 sums.           *)

Data(v)           == <<"data", v>>
ListOf(n)         == <<"list", [k \in ListedFiles |-> n[k]]>>
DescriptionOf(n)  == <<"description", [k \in {"list", "signature"} |-> n[k]]>>

\* The files a signature covers: consts, the lists, the description and the
\* immutable files of the lists, as they are on disk.
SignedNames(n) == {<<k, n[k]>> : k \in Immutable \cup {"list", "description"}}
SignatureOf(a, n, st) ==
    <<"signature", [f \in SignedNames(n) |-> st[a][f]]>>

\* What the code is about to write into file k of area a.
ContentOf(a, k, n, c, st) ==
    CASE k \in ListedFiles   -> Data(c[a][k])
      [] k = "list"          -> ListOf(n[a])
      [] k = "description"   -> DescriptionOf(n[a])
      [] k = "signature"     -> SignatureOf(a, n[a], st)

\* The stamps of a run that keeps nothing.
FreshNames(t) ==
    [a \in Areas |-> [k \in StageKeys |-> IF k = "live" THEN 0 ELSE t]]

SummaryOf(n, st) ==
    [a \in Areas |-> [descript |-> n[a].description,
                      sign |-> st[a][<<"signature", n[a].signature>>]]]

-----------------------------------------------------------------------------
(* Load and reuse *)

\* load_main_dicts, load_entry_dicts: from the summary to the description,
\* from there to the list and the signature, from the list to the files.  An
\* item of a list is the stamp in the file's name, its period and its content;
\* the period is read back from the file as text.
Loaded(a) ==
    LET d    == summary[a].descript
        desc == stage[a][<<"description", d>>][2]
        list == stage[a][<<"list", desc.list>>][2]
    IN  [names |-> [k \in StageKeys |->
                      CASE k \in ListedFiles -> list[k]
                        [] k = "description" -> d
                        [] OTHER             -> desc[k]],
         items |-> [k \in ListedFiles |->
                      [stamp |-> list[k], period |-> <<"text", 0>>,
                       content |-> stage[a][<<k, list[k]>>]]]]

(* Mutant of ReuseSimple: the old file is kept whatever it holds. *)
ReuseSimpleAny(new, old) == old.stamp

\* reuse_simple_dict on consts: the same text keeps the old file.
ReuseSimple(new, old) == IF new.content = old.content THEN old.stamp ELSE new.stamp

\* FileDictFile.reuse: an item whose tuple, but for the file name, is the same
\* keeps the old tuple.  The period of a new item is a number.
ReuseItem(new, old) ==
    IF [new EXCEPT !.stamp = 0] = [old EXCEPT !.stamp = 0] THEN old.stamp ELSE new.stamp

\* reuse_common_dicts of one area: consts first; then the list with the name
\* of consts in it, kept if all of it is; then the description and the
\* signature, kept if everything else was.
Reused(a, c, t) ==
    LET old     == Loaded(a)
        fresh   == FreshNames(t)[a]
        item(k, s) == [stamp |-> s, period |-> <<"number", 0>>, content |-> Data(c[a][k])]
        consts  == ReuseSimple(item("consts", fresh.consts), old.items.consts)
        first   == [fresh EXCEPT !.consts = consts]
        listed  == [k \in ListedFiles |-> ReuseItem(item(k, first[k]), old.items[k])]
        same    == \A k \in ListedFiles : listed[k] = old.names[k]
        kept    == same /\ consts = old.names.consts
    IN  [k \in StageKeys |->
            CASE k \in ListedFiles -> listed[k]
              [] k = "list"        -> IF same THEN old.names.list ELSE fresh.list
              [] OTHER             -> IF kept THEN old.names[k] ELSE fresh[k]]

-----------------------------------------------------------------------------
(* Save *)

(* Mutant of WriteOrder: the signatures are taken before the list is on disk. *)
WriteOrderSigned == <<"description", "consts", "script", "live", "signature", "list">>

\* save_common_dicts: the description, the listed files, the list, and the
\* signature ("dictionaries must have been written to disk before using this").
WriteOrder == <<"description", "consts", "script", "live", "list", "signature">>

\* FileDicts.save: the entries first, then main, whose last step writes the
\* summary.
SaveOrder ==
    [i \in 1 .. 13 |->
        IF i = 13 THEN <<"main", "summary">>
        ELSE IF i <= 6 THEN <<"entry", WriteOrder[i]>> ELSE <<"main", WriteOrder[i - 6]>>]

\* DictFile.save skips a list, description or signature that was kept;
\* save_files writes all the listed files, also those that kept their name.
Writes(i) ==
    LET a == SaveOrder[i][1]  k == SaveOrder[i][2]
    IN  k \in {"list", "description", "signature"} => names[a][k] = Installed + runs

NextToSave(i) ==
    /\ i \in saved + 1 .. 13 /\ Writes(i)
    /\ \A j \in saved + 1 .. i - 1 : ~ Writes(j)

-----------------------------------------------------------------------------
(* A fresh install, completed. *)

InstalledFiles(c) ==
    LET n == FreshNames(Installed)
        data == [a \in Areas |-> [f \in StageKeys \X Stamps |->
                    IF f[1] \in ListedFiles /\ f[2] = n[a][f[1]] THEN Data(c[a][f[1]])
                    ELSE IF f = <<"list", Installed>> THEN ListOf(n[a])
                    ELSE IF f = <<"description", Installed>> THEN DescriptionOf(n[a])
                    ELSE Missing]]
    IN  [a \in Areas |->
            [data[a] EXCEPT ![<<"signature", Installed>>] = SignatureOf(a, n[a], data)]]

StageInit ==
    \E c \in Confs :
        /\ stage = InstalledFiles(c)
        /\ summary = SummaryOf(FreshNames(Installed), InstalledFiles(c))
        /\ runs = 0 /\ failures = 0
        /\ conf = c /\ status = "done"
        /\ names = FreshNames(Installed)
        /\ saved = 0 /\ opened = FALSE
        /\ complete = [conf |-> c, summary |-> SummaryOf(FreshNames(Installed), InstalledFiles(c))]

\* reconfig_glidein: load the old tree, populate from the configuration, reuse.
\* With a torn summary the load raises and the run ends before it writes.
Reconfigure ==
    /\ status # "writing" /\ runs < MaxRuns
    /\ Written(summary)
    /\ \E c \in Confs :
          LET t == Installed + runs + 1
          IN  /\ conf' = c
              /\ names' = [a \in Areas |-> Reused(a, c, t)]
    /\ runs' = runs + 1 /\ status' = "writing" /\ saved' = 0 /\ opened' = FALSE
    /\ UNCHANGED <<stage, summary, failures, complete>>

\* open(filepath, "wb")
OpenFile ==
    /\ status = "writing" /\ ~opened
    /\ \E i \in 1 .. 13 :
          /\ NextToSave(i)
          /\ saved' = i
          /\ LET a == SaveOrder[i][1]  k == SaveOrder[i][2]
             IN  IF k = "summary"
                 THEN summary' = Torn /\ UNCHANGED stage
                 ELSE stage' = [stage EXCEPT ![a][<<k, names[a][k]>>] = Torn] /\ UNCHANGED summary
    /\ opened' = TRUE
    /\ UNCHANGED <<runs, failures, conf, status, names, complete>>

\* The data is written and the file closed.
FillFile ==
    /\ status = "writing" /\ opened
    /\ SaveOrder[saved][2] # "summary"
    /\ LET a == SaveOrder[saved][1]  k == SaveOrder[saved][2]
       IN  stage' = [stage EXCEPT ![a][<<k, names[a][k]>>] = ContentOf(a, k, names, conf, stage)]
    /\ opened' = FALSE
    /\ UNCHANGED <<summary, runs, failures, conf, status, names, saved, complete>>

\* The summary is written: the run is complete.
FillSummary ==
    /\ status = "writing" /\ opened
    /\ SaveOrder[saved][2] = "summary"
    /\ summary' = SummaryOf(names, stage)
    /\ complete' = [conf |-> conf, summary |-> SummaryOf(names, stage)]
    /\ saved' = 0 /\ opened' = FALSE /\ status' = "done"
    /\ UNCHANGED <<stage, runs, failures, conf, names>>

\* A write raises DictFileError (disk full), or the process is killed.
Interrupted ==
    /\ status = "writing" /\ failures < MaxFailures
    /\ failures' = failures + 1 /\ status' = "failed"
    /\ saved' = 0 /\ opened' = FALSE
    /\ UNCHANGED <<stage, summary, runs, conf, names, complete>>

StageNext == Reconfigure \/ OpenFile \/ FillFile \/ FillSummary \/ Interrupted

-----------------------------------------------------------------------------
(* Properties *)

\* The tree a summary line leads to in an area: the signature it was hashed
\* from says what every file of the tree must hold.
SignedFiles(a, line) == line.sign[2]

BeingWritten(a, f) ==
    /\ status = "writing" /\ opened /\ SaveOrder[saved][1] = a
    /\ SaveOrder[saved][2] # "summary"
    /\ f = <<SaveOrder[saved][2], names[a][SaveOrder[saved][2]]>>

\* What was once published under a summary stays what it was.  A file of a
\* tree that the given summary promises holds the content it was signed with,
\* or is truncated: for the moment of its own rewriting, or for good after a
\* run was interrupted there.  A later run changes it to nothing else.
TreeKept(s) ==
    \A a \in Areas :
        /\ s[a].sign[1] = "signature"
        /\ \A f \in DOMAIN SignedFiles(a, s[a]) :
              \/ stage[a][f] = SignedFiles(a, s[a])[f] /\ Written(stage[a][f])
              \/ stage[a][f] = Torn /\ (failures > 0 \/ BeingWritten(a, f))

\* A reconfiguration that ran to its end has published its configuration: from
\* the summary, by the names in the description and the list, every file is
\* found with the content of the configuration, the unsigned ones included,
\* and every signed hash is that of the file on disk.
CurrentIsConfigured ==
    status = "done" =>
        \A a \in Areas :
            LET d    == stage[a][<<"description", summary[a].descript>>]
                list == stage[a][<<"list", d[2].list>>]
            IN  /\ d[1] = "description" /\ list[1] = "list"
                /\ \A k \in ListedFiles : stage[a][<<k, list[2][k]>>] = Data(conf[a][k])
                /\ stage[a][<<"signature", d[2].signature>>] = summary[a].sign
                /\ \A f \in DOMAIN SignedFiles(a, summary[a]) :
                      stage[a][f] = SignedFiles(a, summary[a])[f]

\* "Populate the dictionary (re)using as much as possible of `other`": a
\* reconfiguration that ends with the configuration of the last completed run
\* publishes what is already there, and so leaves the summary as it was.
UnchangedReuses ==
    [][(status = "writing" /\ status' = "done" /\ conf = complete.conf)
          => summary' = complete.summary]_stageVars
=============================================================================
