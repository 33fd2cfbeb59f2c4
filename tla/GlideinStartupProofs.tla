------------------------ MODULE GlideinStartupProofs ------------------------
(***************************************************************************)
(* Proofs about StageFiles and GlideinStartup, for any configurations, any *)
(* number of reconfigurations and of interruptions.                        *)
(***************************************************************************)
EXTENDS GlideinStartup, TLAPS

-----------------------------------------------------------------------------
(* The names of a tree: all of its files were written by the run with stamp *)
(* d, but for the unsigned one, and for consts, which may be an older run's. *)
TreeNames(d, s) ==
    [k \in StageKeys |-> CASE k = "live" -> 0 [] k = "consts" -> s [] OTHER -> d]

(* What the files of such a tree hold when it is complete: v is the part of  *)
(* the configuration for its area.                                           *)
Planned(n, v, k) ==
    CASE k \in ListedFiles -> Data(v[k])
      [] k = "list"        -> ListOf(n)
      [] OTHER             -> DescriptionOf(n)

Signed(n, v) == <<"signature", [f \in SignedNames(n) |-> Planned(n, v, f[1])]>>

Final(n, v, k) == IF k = "signature" THEN Signed(n, v) ELSE Planned(n, v, k)

Line(n, v) == [descript |-> n.description, sign |-> Signed(n, v)]

Files == StageKeys \X Stamps

-----------------------------------------------------------------------------
(* The inductive invariant. *)

Typed ==
    /\ stage = [a \in Areas |-> [f \in Files |-> stage[a][f]]]
    /\ runs \in 0..MaxRuns /\ failures \in 0..MaxFailures
    /\ conf \in Confs /\ complete.conf \in Confs
    /\ status \in {"done", "writing", "failed"}
    /\ saved \in 0..13 /\ opened \in BOOLEAN
    /\ opened => saved # 0 /\ status = "writing"

(* The last run began a tree of its own. *)
Named ==
    /\ names = [a \in Areas |-> names[a]]
    /\ \A a \in Areas : \E s \in 1..runs + 1 : names[a] = TreeNames(runs + 1, s)

(* What it has written so far is there. *)
IsSaved(i) ==
    LET a == SaveOrder[i][1]  k == SaveOrder[i][2]
    IN  stage[a][<<k, names[a][k]>>] = Final(names[a], conf[a], k)

SavedSoFar ==
    /\ status = "writing" =>
          \A i \in 1..12 : (i < saved \/ (i = saved /\ ~ opened)) => IsSaved(i)
    /\ status = "done" =>
          /\ \A i \in 1..12 : IsSaved(i)
          /\ summary = complete.summary /\ conf = complete.conf
          /\ \A a \in Areas : summary[a] = Line(names[a], conf[a])

(* No tree of an earlier run has the stamp of the run that is writing. *)
Latest == IF status = "writing" THEN runs ELSE runs + 1

(* In area a the tree (d, s) that a summary line leads to is as published.   *)
(* Only its consts may be written again, and then with the same content.     *)
Stands(a, line, v, d, s) ==
    /\ line = Line(TreeNames(d, s), v)
    /\ \A k \in {"script", "list", "description"} :
          stage[a][<<k, d>>] = Planned(TreeNames(d, s), v, k)
    /\ stage[a][<<"signature", d>>] = line.sign
    /\ \/ stage[a][<<"consts", s>>] = Data(v["consts"])
       \/ stage[a][<<"consts", s>>] = Torn /\ (failures > 0 \/ BeingWritten(a, <<"consts", s>>))
    /\ status = "writing" /\ names[a]["consts"] = s => v["consts"] = conf[a]["consts"]

Tree(a, line, v) == \E d \in 1..Latest : \E s \in 1..d : Stands(a, line, v, d, s)

Promised ==
    /\ summary \in {Torn, complete.summary}
    /\ \A a \in Areas : Tree(a, complete.summary[a], complete.conf[a])

LiveThere == \A a \in Areas : stage[a][<<"live", 0>>] # Missing

StageInv == Typed /\ Named /\ SavedSoFar /\ Promised /\ LiveThere

(* Where a file is in the order of the downloads. *)
Place(a, k) ==
    LET later == IF a = "main" THEN 6 ELSE 10
    IN  CASE k = "description" -> IF a = "main" THEN 1 ELSE 3
          [] k = "signature"   -> IF a = "main" THEN 2 ELSE 4
          [] k = "list"        -> later
          [] k = "consts"      -> later + 1
          [] k = "script"      -> later + 2
          [] k = "live"        -> later + 3

(* What a glidein has downloaded from the tree (d, s) is what was published. *)
Downloaded(g, a, d, s) ==
    /\ g.args[a] = Line(TreeNames(d, s), g.asked[a])
    /\ \A k \in StageKeys \ {"live"} : Place(a, k) < g.next =>
          g.work[a][k] = Final(TreeNames(d, s), g.asked[a], k)

(* The glidein's own variables, while and after it downloads. *)
GlideinTyped ==
    /\ glidein = [phase |-> glidein.phase, args |-> glidein.args, asked |-> glidein.asked,
                  next |-> glidein.next, work |-> glidein.work, fault |-> glidein.fault]
    /\ glidein.work = [a \in Areas |-> [k \in StageKeys |-> glidein.work[a][k]]]
    /\ glidein.next \in 1..14
    /\ glidein.phase = "fetching" => glidein.next # 14
    /\ glidein.phase = "running" => glidein.next = 14
    /\ glidein.phase = "failed" => glidein.fault = TRUE

GlideinInv ==
    /\ glidein.phase \in {"none", "fetching", "running", "failed"}
    /\ glidein.phase # "none" =>
          /\ GlideinTyped
          /\ \A a \in Areas : \E d \in 1..Latest : \E s \in 1..d :
                /\ Stands(a, glidein.args[a], glidein.asked[a], d, s)
                /\ Downloaded(glidein, a, d, s)

IInv == StageInv /\ GlideinInv

-----------------------------------------------------------------------------
(* Names and contents. *)

LEMMA Contents ==
    ASSUME NEW v, NEW w, NEW n
    PROVE  /\ Data(v) # Torn /\ Data(v) # Missing /\ (Data(v) = Data(w) => v = w)
           /\ ListOf(n) # Torn /\ ListOf(n) # Missing /\ ListOf(n)[1] = "list"
           /\ DescriptionOf(n) # Torn /\ DescriptionOf(n) # Missing
           /\ DescriptionOf(n)[1] = "description" /\ Torn[1] # "description"
           /\ Torn # Missing
BY DEF Data, ListOf, DescriptionOf, Torn, Missing

LEMMA ListedNames ==
    ASSUME NEW n
    PROVE  /\ \A k \in ListedFiles : ListOf(n)[2][k] = n[k]
           /\ DescriptionOf(n)[2].list = n["list"]
           /\ DescriptionOf(n)[2].signature = n["signature"]
           /\ DescriptionOf(n)[2]["list"] = n["list"]
           /\ DescriptionOf(n)[2]["signature"] = n["signature"]
BY DEF ListOf, DescriptionOf

LEMMA NamesOfTree ==
    ASSUME NEW d, NEW s
    PROVE  /\ TreeNames(d, s) = [k \in StageKeys |-> TreeNames(d, s)[k]]
           /\ TreeNames(d, s)["live"] = 0 /\ TreeNames(d, s)["consts"] = s
           /\ TreeNames(d, s)["script"] = d /\ TreeNames(d, s)["list"] = d
           /\ TreeNames(d, s)["description"] = d /\ TreeNames(d, s)["signature"] = d
BY DEF TreeNames, StageKeys, ListedFiles

LEMMA SignedOfTree ==
    ASSUME NEW d, NEW s, NEW v
    PROVE  LET n == TreeNames(d, s)
           IN  /\ Signed(n, v)[1] = "signature"
               /\ DOMAIN Signed(n, v)[2] = {<<"consts", s>>, <<"script", d>>, <<"list", d>>,
                                             <<"description", d>>}
               /\ Signed(n, v)[2][<<"consts", s>>] = Data(v["consts"])
               /\ Signed(n, v)[2][<<"script", d>>] = Data(v["script"])
               /\ Signed(n, v)[2][<<"list", d>>] = ListOf(n)
               /\ Signed(n, v)[2][<<"description", d>>] = DescriptionOf(n)
<1> DEFINE n == TreeNames(d, s)
           F == {<<"consts", s>>, <<"script", d>>, <<"list", d>>, <<"description", d>>}
<1>1. SignedNames(n) = F
  BY NamesOfTree DEF SignedNames, Immutable, ListedFiles
<1>2. \A f \in F : f[1] \in {"consts", "script", "list", "description"}
  OBVIOUS
<1>3. /\ Planned(n, v, "consts") = Data(v["consts"]) /\ Planned(n, v, "script") = Data(v["script"])
      /\ Planned(n, v, "list") = ListOf(n) /\ Planned(n, v, "description") = DescriptionOf(n)
  BY DEF Planned, ListedFiles
<1>4. Signed(n, v) = <<"signature", [f \in F |-> Planned(n, v, f[1])]>>
  BY <1>1 DEF Signed
<1> HIDE DEF n
<1> QED  BY <1>3, <1>4 DEF n

LEMMA SignedFile ==
    ASSUME NEW d, NEW s, NEW v, NEW k \in {"consts", "script", "list", "description"}
    PROVE  /\ <<k, TreeNames(d, s)[k]>> \in DOMAIN Signed(TreeNames(d, s), v)[2]
           /\ Signed(TreeNames(d, s), v)[2][<<k, TreeNames(d, s)[k]>>] = Planned(TreeNames(d, s), v, k)
<1> DEFINE n == TreeNames(d, s)
           f == <<k, n[k]>>
<1>1. f \in SignedNames(n) /\ f[1] = k
  BY DEF SignedNames, Immutable, ListedFiles
<1> HIDE DEF n, f
<1>2. f \in DOMAIN Signed(n, v)[2] /\ Signed(n, v)[2][f] = Planned(n, v, k)
  BY <1>1 DEF Signed
<1> QED  BY <1>2 DEF n, f

(* The places of the files in the order they are saved in. *)
LEMMA SavedAt ==
    /\ \A i \in 1..12 : SaveOrder[i][1] \in Areas /\ SaveOrder[i][2] \in StageKeys
    /\ SaveOrder[13] = <<"main", "summary">>
    /\ \A i, j \in 1..12 : SaveOrder[i][1] = SaveOrder[j][1] /\ SaveOrder[i][2] = SaveOrder[j][2]
                             => i = j
    /\ \A a \in Areas, k \in StageKeys : \E i \in 1..12 :
          /\ SaveOrder[i][1] = a /\ SaveOrder[i][2] = k
          /\ \A j \in 1..12 : SaveOrder[j][1] = a /\ SaveOrder[j][2] = "signature" => i <= j
<1>1. /\ WriteOrder[1] = "description" /\ WriteOrder[2] = "consts" /\ WriteOrder[3] = "script"
      /\ WriteOrder[4] = "live" /\ WriteOrder[5] = "list" /\ WriteOrder[6] = "signature"
  BY DEF WriteOrder
<1>2. /\ \A i \in 1..6 : SaveOrder[i] = <<"entry", WriteOrder[i]>>
      /\ \A i \in 7..12 : SaveOrder[i] = <<"main", WriteOrder[i - 6]>>
      /\ SaveOrder[13] = <<"main", "summary">>
  BY DEF SaveOrder
<1>3. \A i \in 1..6 : i = 1 \/ i = 2 \/ i = 3 \/ i = 4 \/ i = 5 \/ i = 6
  OBVIOUS
<1>4. \A i, j \in 1..6 : WriteOrder[i] \in StageKeys /\ (WriteOrder[i] = WriteOrder[j] => i = j)
  BY <1>1, <1>3 DEF StageKeys, ListedFiles
<1>5. \A i \in 1..12 : i \in 1..6 \/ (i \in 7..12 /\ i - 6 \in 1..6)
  OBVIOUS
<1>6. \A i \in 1..12 : SaveOrder[i][1] \in Areas /\ SaveOrder[i][2] \in StageKeys
  BY <1>2, <1>4, <1>5 DEF Areas
<1>7. ASSUME NEW i \in 1..12, NEW j \in 1..12, SaveOrder[i][1] = SaveOrder[j][1],
             SaveOrder[i][2] = SaveOrder[j][2]
      PROVE  i = j
  <2>1. CASE i \in 1..6 /\ j \in 1..6
    BY <2>1, <1>2, <1>4, <1>7
  <2>2. CASE i \in 7..12 /\ j \in 7..12
    BY <2>2, <1>2, <1>4, <1>5, <1>7
  <2>3. CASE i \in 1..6 /\ j \in 7..12
    BY <2>3, <1>2, <1>7
  <2>4. CASE i \in 7..12 /\ j \in 1..6
    BY <2>4, <1>2, <1>7
  <2> QED  BY <2>1, <2>2, <2>3, <2>4
<1>8. ASSUME NEW a \in Areas, NEW k \in StageKeys
      PROVE  \E i \in 1..12 : /\ SaveOrder[i][1] = a /\ SaveOrder[i][2] = k
                              /\ \A j \in 1..12 : SaveOrder[j][1] = a /\ SaveOrder[j][2] = "signature" => i <= j
  <2>1. PICK m \in 1..6 : WriteOrder[m] = k
    BY <1>1 DEF StageKeys, ListedFiles
  <2>2. CASE a = "entry"
    <3>1. SaveOrder[m][1] = a /\ SaveOrder[m][2] = k /\ SaveOrder[6][1] = a /\ SaveOrder[6][2] = "signature"
      BY <2>1, <2>2, <1>1, <1>2
    <3> QED  BY <3>1, <1>7
  <2>3. CASE a = "main"
    <3>1. /\ SaveOrder[m + 6][1] = a /\ SaveOrder[m + 6][2] = k /\ m + 6 \in 1..12
          /\ SaveOrder[12][1] = a /\ SaveOrder[12][2] = "signature"
      BY <2>1, <2>3, <1>1, <1>2
    <3> QED  BY <3>1, <1>7
  <2> QED  BY <2>2, <2>3 DEF Areas
<1> QED  BY <1>2, <1>6, <1>7, <1>8

-----------------------------------------------------------------------------
(* What a reconfiguration reads and reuses. *)

LoadedItem(x, content) == [stamp |-> x, period |-> <<"text", 0>>, content |-> content]
NewItem(x, content)    == [stamp |-> x, period |-> <<"number", 0>>, content |-> content]

LEMMA LoadedTree ==
    ASSUME NEW a \in Areas, NEW v, NEW d \in Int, NEW s \in 1..d,
           Stands(a, summary[a], v, d, s)
    PROVE  /\ Loaded(a).names = TreeNames(d, s)
           /\ \A k \in ListedFiles :
                 Loaded(a).items[k] = LoadedItem(TreeNames(d, s)[k], stage[a][<<k, TreeNames(d, s)[k]>>])
<1> DEFINE n == TreeNames(d, s)
<1>1. summary[a].descript = d
  BY NamesOfTree DEF Stands, Line
<1>2. stage[a][<<"description", d>>] = DescriptionOf(n)
  BY DEF Stands, Planned, ListedFiles
<1>3. stage[a][<<"list", d>>] = ListOf(n)
  BY DEF Stands, Planned, ListedFiles
<1>4. /\ DescriptionOf(n)[2].list = d /\ DescriptionOf(n)[2]["list"] = d
      /\ DescriptionOf(n)[2]["signature"] = d
  BY ListedNames, NamesOfTree
<1>5. \A k \in ListedFiles : ListOf(n)[2][k] = n[k]
  BY ListedNames
<1> DEFINE desc == stage[a][<<"description", summary[a].descript>>][2]
           list == stage[a][<<"list", desc.list>>][2]
<1>6. /\ desc = DescriptionOf(n)[2] /\ list = ListOf(n)[2]
      /\ \A k \in StageKeys : Loaded(a).names[k] = CASE k \in ListedFiles -> list[k]
                                                   [] k = "description" -> summary[a].descript
                                                   [] OTHER             -> desc[k]
      /\ \A k \in ListedFiles :
            Loaded(a).items[k] = LoadedItem(list[k], stage[a][<<k, list[k]>>])
      /\ Loaded(a).names = [k \in StageKeys |-> Loaded(a).names[k]]
  <2>1. desc = DescriptionOf(n)[2] /\ desc.list = d
    BY <1>1, <1>2, <1>4
  <2>2. list = ListOf(n)[2]
    BY <1>3, <2>1
  <2> QED  BY <2>1, <2>2 DEF Loaded, LoadedItem
<1> HIDE DEF desc, list
<1>7. Loaded(a).names = [k \in StageKeys |-> n[k]]
  <2>1. \A k \in StageKeys : Loaded(a).names[k] = n[k]
    BY <1>1, <1>4, <1>5, <1>6, NamesOfTree DEF StageKeys, ListedFiles
  <2> QED  BY <1>6, <2>1
<1> QED  BY <1>5, <1>6, <1>7, NamesOfTree

(* A new item is never taken for an old one: the periods differ. *)
LEMMA NoItemReused ==
    ASSUME NEW x, NEW y, NEW q, NEW c
    PROVE  ReuseItem(NewItem(x, c), LoadedItem(y, q)) = x
BY DEF ReuseItem, NewItem, LoadedItem

LEMMA ReusedNames ==
    ASSUME NEW a \in Areas, NEW v, NEW d \in Int, NEW s \in 1..d, NEW c, NEW t \in Int, d < t,
           Stands(a, summary[a], v, d, s)
    PROVE  \/ Reused(a, c, t) = TreeNames(t, t)
           \/ /\ Reused(a, c, t) = TreeNames(t, s)
              /\ stage[a][<<"consts", s>>] = Data(c[a]["consts"])
<1>1. /\ Loaded(a).names = TreeNames(d, s)
      /\ \A k \in ListedFiles :
            Loaded(a).items[k] = LoadedItem(TreeNames(d, s)[k], stage[a][<<k, TreeNames(d, s)[k]>>])
  BY LoadedTree
<1> DEFINE old    == Loaded(a)
           fresh  == FreshNames(t)[a]
           item(k, x) == [stamp |-> x, period |-> <<"number", 0>>, content |-> Data(c[a][k])]
           consts == ReuseSimple(item("consts", fresh.consts), old.items.consts)
           first  == [fresh EXCEPT !.consts = consts]
           listed == [k \in ListedFiles |-> ReuseItem(item(k, first[k]), old.items[k])]
           same   == \A k \in ListedFiles : listed[k] = old.names[k]
           kept   == same /\ consts = old.names.consts
           n      == TreeNames(d, s)
<1>2. fresh = [k \in StageKeys |-> IF k = "live" THEN 0 ELSE t]
  BY DEF FreshNames
<1>3. /\ consts \in {s, t}
      /\ consts = s => s = t \/ stage[a][<<"consts", s>>] = Data(c[a]["consts"])
  <2>1. fresh.consts = t
    BY <1>2 DEF StageKeys, ListedFiles
  <2>2. old.items["consts"] = LoadedItem(s, stage[a][<<"consts", s>>])
    BY <1>1, NamesOfTree DEF ListedFiles
  <2>3. old.items.consts = LoadedItem(s, stage[a][<<"consts", s>>])
    BY <2>2
  <2> QED  BY <2>1, <2>3 DEF ReuseSimple, LoadedItem
<1>4. first["consts"] = consts /\ first["script"] = t /\ first["live"] = 0
  BY <1>2 DEF StageKeys, ListedFiles
<1>5. \A k \in ListedFiles : listed[k] = first[k]
  <2> SUFFICES ASSUME NEW k \in ListedFiles PROVE ReuseItem(item(k, first[k]), old.items[k]) = first[k]
    OBVIOUS
  <2>1. old.items[k] = LoadedItem(n[k], stage[a][<<k, n[k]>>])
    BY <1>1
  <2>2. item(k, first[k]) = NewItem(first[k], Data(c[a][k]))
    BY DEF NewItem
  <2> HIDE DEF first, n, old, item
  <2> QED  BY <2>1, <2>2, NoItemReused
<1>6. ~ same
  BY <1>1, <1>4, <1>5, NamesOfTree DEF ListedFiles
<1>7. Reused(a, c, t) =
        [k \in StageKeys |->
            CASE k \in ListedFiles -> listed[k]
              [] k = "list"        -> IF same THEN old.names.list ELSE fresh.list
              [] OTHER             -> IF kept THEN old.names[k] ELSE fresh[k]]
  BY DEF Reused
<1>8. /\ fresh.list = t /\ fresh["description"] = t /\ fresh["signature"] = t
  BY <1>2 DEF StageKeys
<1> HIDE DEF same, listed, fresh, first, consts, old
<1>9. \A k \in StageKeys : Reused(a, c, t)[k] = TreeNames(t, consts)[k]
  BY <1>4, <1>5, <1>6, <1>7, <1>8, NamesOfTree DEF kept, StageKeys, ListedFiles
<1>10. Reused(a, c, t) = TreeNames(t, consts)
  BY <1>7, <1>9, NamesOfTree
<1> QED  BY <1>3, <1>10

-----------------------------------------------------------------------------
(* The fresh install. *)

LEMMA SignatureTaken ==
    ASSUME NEW a \in Areas, NEW st, NEW v, NEW d, NEW s,
           \A k \in {"consts", "script", "list", "description"} :
               st[a][<<k, TreeNames(d, s)[k]>>] = Planned(TreeNames(d, s), v, k)
    PROVE  SignatureOf(a, TreeNames(d, s), st) = Signed(TreeNames(d, s), v)
<1> DEFINE n == TreeNames(d, s)
<1>1. \A f \in SignedNames(n) : st[a][f] = Planned(n, v, f[1])
  <2> SUFFICES ASSUME NEW k \in {"consts", "script", "list", "description"}
               PROVE  st[a][<<k, n[k]>>] = Planned(n, v, <<k, n[k]>>[1])
    BY DEF SignedNames, Immutable, ListedFiles
  <2> QED  OBVIOUS
<1> HIDE DEF n
<1>2. SignatureOf(a, n, st) = Signed(n, v)
  BY <1>1 DEF SignatureOf, Signed
<1> QED  BY <1>2 DEF n

LEMMA InstalledTree ==
    ASSUME NEW c \in Confs, NEW a \in Areas
    PROVE  LET n == TreeNames(1, 1)  st == InstalledFiles(c)
           IN  /\ FreshNames(Installed) = [b \in Areas |-> n]
               /\ st = [b \in Areas |-> [f \in Files |-> st[b][f]]]
               /\ \A k \in StageKeys : st[a][<<k, n[k]>>] = Final(n, c[a], k)
               /\ st[a][<<"live", 0>>] # Missing
               /\ SummaryOf(FreshNames(Installed), st) = [b \in Areas |-> SummaryOf(FreshNames(Installed), st)[b]]
               /\ SummaryOf(FreshNames(Installed), st)[a] = Line(n, c[a])
<1> DEFINE n  == TreeNames(1, 1)
           st == InstalledFiles(c)
           nn == FreshNames(Installed)
           data == [b \in Areas |-> [f \in Files |->
                    IF f[1] \in ListedFiles /\ f[2] = nn[b][f[1]] THEN Data(c[b][f[1]])
                    ELSE IF f = <<"list", Installed>> THEN ListOf(nn[b])
                    ELSE IF f = <<"description", Installed>> THEN DescriptionOf(nn[b])
                    ELSE Missing]]
<1>1. nn = [b \in Areas |-> n]
  <2>1. \A k \in StageKeys : n[k] = IF k = "live" THEN 0 ELSE Installed
    BY NamesOfTree DEF StageKeys, ListedFiles, Installed
  <2>2. n = [k \in StageKeys |-> IF k = "live" THEN 0 ELSE Installed]
    BY <2>1, NamesOfTree
  <2> QED  BY <2>2 DEF FreshNames
<1>2. st = [b \in Areas |-> [data[b] EXCEPT ![<<"signature", Installed>>] = SignatureOf(b, nn[b], data)]]
  BY DEF InstalledFiles, Files
<1>3. nn[a] = n
  BY <1>1
<1>4. \A k \in StageKeys : <<k, n[k]>> \in Files
  BY NamesOfTree, StageAssumption DEF Files, Stamps, StageKeys, ListedFiles
<1>5. \A k \in StageKeys \ {"signature"} : data[a][<<k, n[k]>>] = Planned(n, c[a], k)
  BY <1>3, <1>4, NamesOfTree DEF Planned, StageKeys, ListedFiles, Installed
<1>6. /\ data[a] = [f \in Files |-> data[a][f]]
      /\ \A b \in Areas : data[b] = [f \in Files |-> data[b][f]]
  OBVIOUS
<1> HIDE DEF data
<1>7. SignatureOf(a, n, data) = Signed(n, c[a])
  <2>1. \A k \in {"consts", "script", "list", "description"} : data[a][<<k, n[k]>>] = Planned(n, c[a], k)
    BY <1>5 DEF StageKeys, ListedFiles
  <2> QED  BY <2>1, SignatureTaken
<1>8. st[a] = [data[a] EXCEPT ![<<"signature", Installed>>] = Signed(n, c[a])]
  <2> HIDE DEF n, st, nn
  <2> QED  BY <1>2, <1>3, <1>7
<1>9. st[a] = [f \in Files |-> st[a][f]] /\ \A b \in Areas : st[b] = [f \in Files |-> st[b][f]]
  BY <1>2, <1>6
<1>10. st = [b \in Areas |-> [f \in Files |-> st[b][f]]]
  <2>1. st = [b \in Areas |-> st[b]]
    BY <1>2
  <2> HIDE DEF st
  <2> QED  BY <2>1, <1>9
<1>11. \A k \in StageKeys : st[a][<<k, n[k]>>] = Final(n, c[a], k)
  <2> SUFFICES ASSUME NEW k \in StageKeys PROVE st[a][<<k, n[k]>>] = Final(n, c[a], k)
    OBVIOUS
  <2>1. CASE k = "signature"
    <3>1. n[k] = Installed /\ <<k, n[k]>> \in Files
      BY <2>1, <1>4, NamesOfTree DEF Installed
    <3> HIDE DEF n, st
    <3> QED  BY <3>1, <2>1, <1>6, <1>8 DEF Final
  <2>2. CASE k # "signature"
    <3>1. data[a][<<k, n[k]>>] = Planned(n, c[a], k) /\ <<k, n[k]>> \in Files
      BY <2>2, <1>4, <1>5
    <3> HIDE DEF n, st
    <3> QED  BY <3>1, <2>2, <1>6, <1>8 DEF Final, Installed
  <2> QED  BY <2>1, <2>2
<1>12. st[a][<<"live", 0>>] # Missing
  <2>1. st[a][<<"live", 0>>] = Final(n, c[a], "live")
    BY <1>11, NamesOfTree DEF StageKeys, ListedFiles
  <2>2. Final(n, c[a], "live") = Data(c[a]["live"])
    BY DEF Final, Planned, ListedFiles
  <2> QED  BY <2>1, <2>2, Contents
<1>13. SummaryOf(nn, st)[a] = Line(n, c[a])
  <2>1. st[a][<<"signature", n.signature>>] = Signed(n, c[a])
    BY <1>11, NamesOfTree DEF StageKeys, Final
  <2> HIDE DEF n, st, nn
  <2> QED  BY <2>1, <1>3 DEF SummaryOf, Line
<1>14. SummaryOf(nn, st) = [b \in Areas |-> SummaryOf(nn, st)[b]]
  BY DEF SummaryOf
<1> HIDE DEF st, nn
<1> QED  BY <1>1, <1>10, <1>11, <1>12, <1>13, <1>14 DEF st, nn

(* Every file of a tree, one by one. *)
AllFinal(a, n, v) == \A k \in StageKeys : stage[a][<<k, n[k]>>] = Final(n, v, k)

Published(a, v, d, s) ==
    /\ \A k \in {"script", "list", "description"} :
          stage[a][<<k, d>>] = Planned(TreeNames(d, s), v, k)
    /\ stage[a][<<"signature", d>>] = Line(TreeNames(d, s), v).sign
    /\ stage[a][<<"consts", s>>] = Data(v["consts"])

LEMMA TreeWhenFinal ==
    ASSUME NEW a \in Areas, NEW v, NEW d, NEW s, AllFinal(a, TreeNames(d, s), v)
    PROVE  Published(a, v, d, s)
<1> DEFINE n == TreeNames(d, s)
<1>1. \A k \in {"script", "list", "description"} : stage[a][<<k, d>>] = Planned(n, v, k)
  BY NamesOfTree DEF StageKeys, ListedFiles, Final, AllFinal
<1>2. stage[a][<<"signature", d>>] = Signed(n, v)
  BY NamesOfTree DEF StageKeys, ListedFiles, Final, AllFinal
<1>3. stage[a][<<"consts", s>>] = Data(v["consts"])
  BY NamesOfTree DEF StageKeys, ListedFiles, Final, AllFinal, Planned
<1> HIDE DEF n
<1>4. Line(n, v).sign = Signed(n, v)
  BY DEF Line
<1> QED  BY <1>1, <1>2, <1>3, <1>4 DEF n, Published

LEMMA InitStageInv == StageInit => StageInv
<1> SUFFICES ASSUME StageInit PROVE StageInv
  OBVIOUS
<1> DEFINE n == TreeNames(1, 1)
<1>1. PICK c \in Confs :
        /\ stage = InstalledFiles(c)
        /\ summary = SummaryOf(FreshNames(Installed), InstalledFiles(c))
        /\ runs = 0 /\ failures = 0
        /\ conf = c /\ status = "done"
        /\ names = FreshNames(Installed)
        /\ saved = 0 /\ opened = FALSE
        /\ complete = [conf |-> c, summary |-> SummaryOf(FreshNames(Installed), InstalledFiles(c))]
  BY DEF StageInit
<1>2. /\ complete.conf = c /\ complete.summary = summary
  BY <1>1
<1>3. ASSUME NEW a \in Areas
      PROVE  /\ names = [b \in Areas |-> n] /\ stage = [b \in Areas |-> [f \in Files |-> stage[b][f]]]
             /\ \A k \in StageKeys : stage[a][<<k, n[k]>>] = Final(n, c[a], k)
             /\ stage[a][<<"live", 0>>] # Missing
             /\ summary[a] = Line(n, c[a])
  BY <1>1, InstalledTree
<1>4. Typed
  <2>1. stage = [b \in Areas |-> [f \in Files |-> stage[b][f]]]
    BY <1>3 DEF Areas
  <2>2. /\ runs \in 0..MaxRuns /\ failures \in 0..MaxFailures
        /\ conf \in Confs /\ complete.conf \in Confs /\ status = "done"
        /\ saved \in 0..13 /\ opened = FALSE
    BY <1>1, <1>2, StageAssumption
  <2> QED  BY <2>1, <2>2, Zenon DEF Typed
<1>5. Named
  <2>1. names = [b \in Areas |-> n]
    BY <1>3 DEF Areas
  <2> QED  BY <1>1, <2>1 DEF Named
<1>6. SavedSoFar
  <2>1. ASSUME NEW i \in 1..12 PROVE IsSaved(i)
    <3>1. SaveOrder[i][1] \in Areas /\ SaveOrder[i][2] \in StageKeys
      BY SavedAt
    <3>2. names[SaveOrder[i][1]] = n
      BY <3>1, <1>3
    <3> HIDE DEF n
    <3> QED  BY <3>1, <3>2, <1>1, <1>3 DEF IsSaved
  <2>2. \A a \in Areas : summary[a] = Line(names[a], conf[a])
    BY <1>1, <1>3
  <2> QED  BY <2>1, <2>2, <1>1, <1>2 DEF SavedSoFar
<1>7. Promised
  <2>1. ASSUME NEW a \in Areas PROVE Tree(a, complete.summary[a], complete.conf[a])
    <3>1. Stands(a, Line(n, c[a]), c[a], 1, 1)
      <4>1. AllFinal(a, n, c[a])
        BY <1>3 DEF AllFinal
      <4>2. Published(a, c[a], 1, 1)
        BY <4>1, TreeWhenFinal
      <4> QED  BY <4>2, <1>1 DEF Published, Stands
    <3>2. complete.summary[a] = Line(n, c[a]) /\ complete.conf[a] = c[a]
      BY <1>2, <1>3
    <3>3. Stands(a, complete.summary[a], complete.conf[a], 1, 1)
      BY <3>1, <3>2
    <3>4. 1 \in 1..Latest /\ 1 \in 1..1
      BY <1>1 DEF Latest
    <3> QED  BY <3>3, <3>4 DEF Tree
  <2> QED  BY <2>1, <1>2 DEF Promised
<1>8. LiveThere
  BY <1>3 DEF LiveThere
<1> QED  BY <1>4, <1>5, <1>6, <1>7, <1>8 DEF StageInv

-----------------------------------------------------------------------------
(* The file a run is at. *)

LEMMA FileNames ==
    ASSUME Typed, Named, NEW a \in Areas
    PROVE  /\ \A k \in StageKeys : <<k, names[a][k]>> \in Files
           /\ names[a]["live"] = 0
           /\ \A k \in {"script", "list", "description", "signature"} : names[a][k] = runs + 1
           /\ names[a]["consts"] \in 1..runs + 1
           /\ runs \in Nat /\ runs <= MaxRuns /\ MaxRuns \in Nat
<1>1. PICK s \in 1..runs + 1 : names[a] = TreeNames(runs + 1, s)
  BY DEF Named
<1>2. runs \in Nat /\ runs <= MaxRuns /\ MaxRuns \in Nat
  BY StageAssumption DEF Typed
<1> QED  BY <1>1, <1>2, NamesOfTree DEF Files, Stamps, StageKeys, ListedFiles

(* A run writes every file of its tree: none of its lists is an old one.     *)
LEMMA AllWritten ==
    ASSUME Typed, Named, NEW i \in 1..13
    PROVE  Writes(i)
<1>1. CASE i = 13
  BY <1>1, SavedAt DEF Writes
<1>2. CASE i # 13
  <2>1. SaveOrder[i][1] \in Areas
    BY <1>2, SavedAt
  <2> QED  BY <2>1, FileNames DEF Writes, Installed
<1> QED  BY <1>1, <1>2

(* What is planned for a file is what is written. *)
LEMMA WrittenAsPlanned ==
    ASSUME Typed, Named, SavedSoFar, status = "writing", opened, saved \in 1..12,
           NEW a, NEW k, a = SaveOrder[saved][1], k = SaveOrder[saved][2]
    PROVE  ContentOf(a, k, names, conf, stage) = Final(names[a], conf[a], k)
<1>1. a \in Areas /\ k \in StageKeys
  BY SavedAt
<1>2. CASE k = "signature"
  <2>1. PICK s \in 1..runs + 1 : names[a] = TreeNames(runs + 1, s)
    BY <1>1 DEF Named
  <2>2. ASSUME NEW j \in {"consts", "script", "list", "description"}
        PROVE  stage[a][<<j, names[a][j]>>] = Planned(names[a], conf[a], j)
    <3>1. PICK i \in 1..12 : SaveOrder[i][1] = a /\ SaveOrder[i][2] = j /\ i <= saved
      BY <1>1, <1>2, SavedAt DEF StageKeys, ListedFiles
    <3>2. i # saved
      BY <1>2, <3>1
    <3>3. IsSaved(i)
      BY <3>1, <3>2 DEF SavedSoFar
    <3> QED  BY <3>1, <3>3 DEF IsSaved, Final
  <2>3. SignatureOf(a, names[a], stage) = Signed(names[a], conf[a])
    BY <1>1, <2>1, <2>2, SignatureTaken
  <2> QED  BY <1>2, <2>3 DEF ContentOf, Final, ListedFiles
<1>3. CASE k # "signature"
  BY <1>1, <1>3 DEF ContentOf, Final, Planned, StageKeys, ListedFiles
<1> QED  BY <1>2, <1>3

-----------------------------------------------------------------------------
(* A published tree stays as it is, step by step. *)

(* The run at work writes a file of an older tree only if that is consts.    *)
LEMMA ForeignFile ==
    ASSUME Typed, Named, status = "writing", NEW a \in Areas, NEW k \in StageKeys,
           NEW d \in 1..Latest, NEW s \in 1..d
    PROVE  /\ \A j \in {"script", "list", "description", "signature"} : <<k, names[a][k]>> # <<j, d>>
           /\ <<k, names[a][k]>> = <<"consts", s>> => k = "consts" /\ names[a]["consts"] = s
<1>1. d # runs + 1
  BY FileNames DEF Latest
<1> QED  BY <1>1, FileNames

LEMMA TreeFiles ==
    ASSUME Typed, NEW d \in 1..Latest, NEW s \in 1..d
    PROVE  /\ \A j \in {"script", "list", "description", "signature"} : <<j, d>> \in Files
           /\ <<"consts", s>> \in Files
BY StageAssumption DEF Typed, Latest, Files, Stamps, StageKeys, ListedFiles

(* One file of the stage area changes. *)
Write(b, f, x) == stage' = [stage EXCEPT ![b][f] = x]

LEMMA StageWritten ==
    ASSUME Typed, NEW b \in Areas, NEW f \in Files, NEW x, Write(b, f, x)
    PROVE  /\ stage' = [a \in Areas |-> [g \in Files |-> stage'[a][g]]]
           /\ stage'[b][f] = x
           /\ \A a \in Areas, g \in Files : a # b \/ g # f => stage'[a][g] = stage[a][g]
<1>1. /\ stage = [a \in Areas |-> stage[a]]
      /\ \A a \in Areas : stage[a] = [g \in Files |-> stage[a][g]]
  BY DEF Typed
<1>2. /\ stage' = [a \in Areas |-> stage'[a]]
      /\ stage'[b] = [stage[b] EXCEPT ![f] = x]
      /\ \A a \in Areas : a # b => stage'[a] = stage[a]
  BY <1>1 DEF Write
<1>3. \A a \in Areas : stage'[a] = [g \in Files |-> stage'[a][g]]
  BY <1>1, <1>2
<1> QED  BY <1>1, <1>2, <1>3

LEMMA ReconfigureKeepsTree ==
    ASSUME StageInv, Reconfigure, NEW a \in Areas, NEW line, NEW v,
           NEW d \in 1..Latest, NEW s \in 1..d, Stands(a, line, v, d, s)
    PROVE  d \in 1..Latest' /\ Stands(a, line, v, d, s)'
<1> USE DEF StageInv
<1>1. /\ status # "writing" /\ summary = complete.summary
      /\ runs' = runs + 1 /\ status' = "writing" /\ runs \in Nat
      /\ UNCHANGED <<stage, failures>>
  BY DEF Reconfigure, Promised, Written, Typed
<1>2. PICK c \in Confs :
        /\ conf' = c
        /\ names' = [b \in Areas |-> Reused(b, c, Installed + runs + 1)]
  BY DEF Reconfigure
<1>3. Latest = runs + 1 /\ Latest' = runs + 1
  BY <1>1 DEF Latest
<1>4. PICK e \in Int : e < runs + 2 /\ \E r \in 1..e : Stands(a, summary[a], complete.conf[a], e, r)
  BY <1>1, <1>3 DEF Promised, Tree
<1>5. PICK r \in 1..e : Stands(a, summary[a], complete.conf[a], e, r)
  BY <1>4
<1>6. ASSUME names'[a]["consts"] = s PROVE v["consts"] = c[a]["consts"]
  <2> PICK t \in Int : t = Installed + runs + 1
    BY <1>1 DEF Installed
  <2>1. e < t /\ s # t
    BY <1>1, <1>3, <1>4 DEF Installed
  <2>2. \/ Reused(a, c, t) = TreeNames(t, t)
        \/ Reused(a, c, t) = TreeNames(t, r) /\ stage[a][<<"consts", r>>] = Data(c[a]["consts"])
    BY <2>1, <1>5, ReusedNames
  <2>3. names'[a] = Reused(a, c, t)
    BY <1>2
  <2>4. r = s /\ stage[a][<<"consts", s>>] = Data(c[a]["consts"])
    BY <2>1, <2>2, <2>3, <1>6, NamesOfTree
  <2>5. stage[a][<<"consts", s>>] = Data(v["consts"]) \/ stage[a][<<"consts", s>>] = Torn
    BY DEF Stands
  <2> QED  BY <2>4, <2>5, Contents
<1>7. ~ BeingWritten(a, <<"consts", s>>)
  BY <1>1 DEF BeingWritten
<1> QED  BY <1>1, <1>2, <1>3, <1>6, <1>7 DEF Stands

LEMMA OpenFileKeepsTree ==
    ASSUME StageInv, OpenFile, NEW a \in Areas, NEW line, NEW v,
           NEW d \in 1..Latest, NEW s \in 1..d, Stands(a, line, v, d, s)
    PROVE  d \in 1..Latest' /\ Stands(a, line, v, d, s)'
<1> USE DEF StageInv
<1>1. /\ status = "writing" /\ ~ opened /\ status' = status /\ opened'
      /\ UNCHANGED <<runs, failures, conf, names>>
  BY DEF OpenFile, Typed
<1>2. PICK i \in 1..13 :
        /\ saved' = i
        /\ LET b == SaveOrder[i][1]  k == SaveOrder[i][2]
           IN  IF k = "summary" THEN stage' = stage
               ELSE stage' = [stage EXCEPT ![b][<<k, names[b][k]>>] = Torn]
  BY DEF OpenFile
<1>3. Latest' = Latest /\ ~ BeingWritten(a, <<"consts", s>>)
  BY <1>1 DEF Latest, BeingWritten
<1>4. CASE i = 13
  <2>1. stage' = stage
    BY <1>2, <1>4, SavedAt
  <2> QED  BY <2>1, <1>1, <1>3 DEF Stands
<1>5. CASE i # 13
  <2> DEFINE b == SaveOrder[i][1]
             k == SaveOrder[i][2]
             f == <<k, names[b][k]>>
  <2>1. b \in Areas /\ k \in StageKeys /\ k # "summary"
    BY <1>5, SavedAt DEF StageKeys, ListedFiles
  <2>2. f \in Files /\ Write(b, f, Torn)
    BY <2>1, <1>2, FileNames DEF Write
  <2>3. /\ \A j \in {"script", "list", "description", "signature"} : b = a => <<j, d>> # f
        /\ b = a /\ <<"consts", s>> = f => k = "consts" /\ names[a]["consts"] = s
    BY <2>1, <1>1, ForeignFile
  <2>4. ASSUME b = a, f = <<"consts", s>> PROVE BeingWritten(a, <<"consts", s>>)'
    <3>1. k = "consts" /\ names'[a]["consts"] = s
      BY <2>3, <2>4, <1>1
    <3> QED  BY <3>1, <2>4, <1>1, <1>2 DEF BeingWritten
  <2> HIDE DEF b, k, f
  <2>5. /\ \A g \in Files : a # b \/ g # f => stage'[a][g] = stage[a][g]
        /\ b = a => stage'[a][f] = Torn
    BY <2>1, <2>2, StageWritten
  <2> QED  BY <1>1, <1>3, <2>3, <2>4, <2>5, TreeFiles DEF Stands
<1> QED  BY <1>4, <1>5

LEMMA FillFileKeepsTree ==
    ASSUME StageInv, FillFile, NEW a \in Areas, NEW line, NEW v,
           NEW d \in 1..Latest, NEW s \in 1..d, Stands(a, line, v, d, s)
    PROVE  d \in 1..Latest' /\ Stands(a, line, v, d, s)'
<1> USE DEF StageInv
<1> DEFINE b == SaveOrder[saved][1]
           k == SaveOrder[saved][2]
           f == <<k, names[b][k]>>
<1>1. /\ status = "writing" /\ opened /\ status' = status /\ k # "summary"
      /\ UNCHANGED <<runs, failures, conf, names>>
  BY DEF FillFile
<1>2. saved \in 1..12
  BY <1>1, SavedAt DEF Typed
<1>3. b \in Areas /\ k \in StageKeys
  BY <1>2, SavedAt
<1>4. f \in Files /\ Write(b, f, Final(names[b], conf[b], k))
  BY <1>1, <1>2, <1>3, FileNames, WrittenAsPlanned DEF FillFile, Write
<1>5. /\ \A j \in {"script", "list", "description", "signature"} : b = a => <<j, d>> # f
      /\ b = a /\ <<"consts", s>> = f => k = "consts" /\ names[a]["consts"] = s
  BY <1>1, <1>3, ForeignFile
<1>6. Latest' = Latest
  BY <1>1 DEF Latest
<1>7. b = a /\ <<"consts", s>> = f => Final(names[b], conf[b], k) = Data(v["consts"])
  BY <1>1, <1>5 DEF Stands, Final, Planned, ListedFiles
<1>8. BeingWritten(a, <<"consts", s>>) => b = a /\ <<"consts", s>> = f
  BY DEF BeingWritten
<1> HIDE DEF b, k, f
<1>9. /\ \A g \in Files : a # b \/ g # f => stage'[a][g] = stage[a][g]
      /\ b = a => stage'[a][f] = Final(names[b], conf[b], k)
  BY <1>3, <1>4, StageWritten
<1> QED  BY <1>1, <1>5, <1>6, <1>7, <1>8, <1>9, TreeFiles DEF Stands

LEMMA FillSummaryKeepsTree ==
    ASSUME StageInv, FillSummary, NEW a \in Areas, NEW line, NEW v,
           NEW d \in 1..Latest, NEW s \in 1..d, Stands(a, line, v, d, s)
    PROVE  d \in 1..Latest' /\ Stands(a, line, v, d, s)'
<1>1. ~ BeingWritten(a, <<"consts", s>>)
  BY DEF BeingWritten, FillSummary
<1>2. d \in 1..Latest'
  BY DEF FillSummary, Latest, StageInv, Typed
<1> QED  BY <1>1, <1>2 DEF FillSummary, Stands

LEMMA InterruptedKeepsTree ==
    ASSUME StageInv, Interrupted, NEW a \in Areas, NEW line, NEW v,
           NEW d \in 1..Latest, NEW s \in 1..d, Stands(a, line, v, d, s)
    PROVE  d \in 1..Latest' /\ Stands(a, line, v, d, s)'
<1>1. d \in 1..Latest'
  BY DEF Interrupted, Latest, StageInv, Typed
<1>2. failures' > 0
  BY DEF Interrupted, StageInv, Typed
<1> QED  BY <1>1, <1>2 DEF Interrupted, Stands

LEMMA TreeKeeps ==
    ASSUME StageInv, [StageNext]_stageVars, NEW a \in Areas, NEW line, NEW v,
           NEW d \in 1..Latest, NEW s \in 1..d, Stands(a, line, v, d, s)
    PROVE  d \in 1..Latest' /\ Stands(a, line, v, d, s)'
<1>1. CASE UNCHANGED stageVars
  BY <1>1 DEF stageVars, Stands, Latest, BeingWritten
<1> QED  BY <1>1, ReconfigureKeepsTree, OpenFileKeepsTree, FillFileKeepsTree, FillSummaryKeepsTree,
            InterruptedKeepsTree DEF StageNext

-----------------------------------------------------------------------------
(* The invariant of the stage area, step by step. *)

LEMMA PromiseCarried ==
    ASSUME StageInv, [StageNext]_stageVars, complete' = complete,
           summary' \in {Torn, complete.summary}
    PROVE  Promised'
<1>1. ASSUME NEW a \in Areas
      PROVE  Tree(a, complete.summary[a], complete.conf[a])'
  <2>1. PICK d \in 1..Latest : \E s \in 1..d : Stands(a, complete.summary[a], complete.conf[a], d, s)
    BY DEF StageInv, Promised, Tree
  <2>2. PICK s \in 1..d : Stands(a, complete.summary[a], complete.conf[a], d, s)
    BY <2>1
  <2>3. PICK line : line = complete.summary[a]
    OBVIOUS
  <2>4. PICK v : v = complete.conf[a]
    OBVIOUS
  <2>5. d \in 1..Latest' /\ Stands(a, line, v, d, s)'
    BY <2>2, <2>3, <2>4, TreeKeeps
  <2>6. complete'.summary[a] = line /\ complete'.conf[a] = v
    BY <2>3, <2>4
  <2> QED  BY <2>5, <2>6 DEF Tree
<1> QED  BY <1>1 DEF Promised

LEMMA ReconfigureStep == StageInv /\ Reconfigure => StageInv'
<1> SUFFICES ASSUME StageInv, Reconfigure PROVE StageInv'
  OBVIOUS
<1>1. /\ status # "writing" /\ runs < MaxRuns /\ Written(summary)
      /\ runs' = runs + 1 /\ status' = "writing" /\ saved' = 0 /\ opened' = FALSE
      /\ UNCHANGED <<stage, summary, failures, complete>>
  BY DEF Reconfigure
<1>2. PICK c \in Confs :
        /\ conf' = c
        /\ names' = [b \in Areas |-> Reused(b, c, Installed + runs + 1)]
  BY DEF Reconfigure
<1>3. runs \in Nat /\ MaxRuns \in Nat
  BY StageAssumption DEF StageInv, Typed
<1>4. Typed'
  <2>1. stage' = [b \in Areas |-> [f \in Files |-> stage'[b][f]]] /\ failures' \in 0..MaxFailures
    BY <1>1 DEF StageInv, Typed
  <2>2. runs' \in 0..MaxRuns /\ saved' \in 0..13
    BY <1>1, <1>3
  <2>3. conf' \in Confs /\ complete'.conf \in Confs /\ status' = "writing" /\ opened' = FALSE
    BY <1>1, <1>2 DEF StageInv, Typed
  <2> QED  BY <2>1, <2>2, <2>3, Zenon DEF Typed
<1>5. Named'
  <2> SUFFICES ASSUME NEW a \in Areas PROVE \E s \in 1..runs' + 1 : names'[a] = TreeNames(runs' + 1, s)
    BY <1>2 DEF Named
  <2>1. PICK t \in Int : t = Installed + runs + 1 /\ t = runs' + 1
    BY <1>1, <1>3 DEF Installed
  <2>2. summary = complete.summary
    BY <1>1 DEF StageInv, Promised, Written
  <2>3. PICK e \in Int : e < t /\ \E r \in 1..e : Stands(a, summary[a], complete.conf[a], e, r)
    BY <1>1, <1>3, <2>1, <2>2 DEF StageInv, Promised, Tree, Latest
  <2>4. PICK r \in 1..e : Stands(a, summary[a], complete.conf[a], e, r)
    BY <2>3
  <2>5. \/ Reused(a, c, t) = TreeNames(t, t)
        \/ Reused(a, c, t) = TreeNames(t, r) /\ stage[a][<<"consts", r>>] = Data(c[a]["consts"])
    BY <2>3, <2>4, ReusedNames
  <2>6. names'[a] = Reused(a, c, t)
    BY <1>2, <2>1
  <2>7. r \in 1..t /\ t \in 1..t
    BY <2>3
  <2> QED  BY <2>1, <2>5, <2>6, <2>7
<1>6. SavedSoFar'
  BY <1>1 DEF SavedSoFar
<1>7. Promised'
  BY <1>1, PromiseCarried DEF StageInv, Promised, StageNext
<1>8. LiveThere'
  BY <1>1 DEF StageInv, LiveThere
<1> QED  BY <1>4, <1>5, <1>6, <1>7, <1>8 DEF StageInv

LEMMA OpenFileStep == StageInv /\ OpenFile => StageInv'
<1> SUFFICES ASSUME StageInv, OpenFile PROVE StageInv'
  OBVIOUS
<1>1. /\ status = "writing" /\ status' = status /\ opened = FALSE /\ opened' = TRUE
      /\ UNCHANGED <<runs, failures, conf, names, complete>>
  BY DEF OpenFile, StageInv, Typed
<1>2. PICK i \in 1..13 :
        /\ NextToSave(i) /\ saved' = i
        /\ LET b == SaveOrder[i][1]  k == SaveOrder[i][2]
           IN  IF k = "summary" THEN summary' = Torn /\ stage' = stage
               ELSE stage' = [stage EXCEPT ![b][<<k, names[b][k]>>] = Torn] /\ summary' = summary
  BY DEF OpenFile
<1>3. saved \in Nat /\ i = saved + 1
  <2>1. saved \in 0..13 /\ i \in saved + 1..13 /\ \A j \in saved + 1..i - 1 : ~ Writes(j)
    BY <1>2 DEF NextToSave, StageInv, Typed
  <2> QED  BY <2>1, AllWritten DEF StageInv
<1>4. /\ stage' = [b \in Areas |-> [f \in Files |-> stage'[b][f]]]
      /\ summary' \in {Torn, summary}
      /\ \A b \in Areas, f \in Files :
            \/ stage'[b][f] = stage[b][f]
            \/ stage'[b][f] = Torn /\ i # 13 /\ b = SaveOrder[i][1] /\ f[1] = SaveOrder[i][2]
  <2>1. CASE i = 13
    BY <2>1, <1>2, SavedAt DEF StageInv, Typed
  <2>2. CASE i # 13
    <3> DEFINE b == SaveOrder[i][1]
               k == SaveOrder[i][2]
               f == <<k, names[b][k]>>
    <3>1. b \in Areas /\ k \in StageKeys /\ k # "summary"
      BY <2>2, SavedAt DEF StageKeys, ListedFiles
    <3>2. f \in Files /\ Write(b, f, Torn) /\ summary' = summary /\ f[1] = k
      BY <3>1, <1>2, FileNames DEF StageInv, Write
    <3> HIDE DEF f
    <3>3. /\ stage' = [a \in Areas |-> [g \in Files |-> stage'[a][g]]]
          /\ stage'[b][f] = Torn
          /\ \A a \in Areas, g \in Files : a # b \/ g # f => stage'[a][g] = stage[a][g]
      BY <3>1, <3>2, StageWritten DEF StageInv
    <3> QED  BY <3>2, <3>3, <2>2
  <2> QED  BY <2>1, <2>2
<1>5. Typed'
  <2>1. /\ runs' \in 0..MaxRuns /\ failures' \in 0..MaxFailures
        /\ conf' \in Confs /\ complete'.conf \in Confs
        /\ status' = "writing" /\ saved' \in 0..13 /\ saved' # 0 /\ opened' = TRUE
    BY <1>1, <1>2 DEF StageInv, Typed
  <2> QED  BY <1>4, <2>1, Zenon DEF Typed
<1>6. Named'
  BY <1>1 DEF StageInv, Named
<1>7. SavedSoFar'
  <2> SUFFICES ASSUME NEW j \in 1..12, j < i PROVE IsSaved(j)'
    BY <1>1, <1>2 DEF SavedSoFar
  <2> DEFINE b == SaveOrder[j][1]
             k == SaveOrder[j][2]
             f == <<k, names[b][k]>>
  <2>1. IsSaved(j)
    BY <1>1, <1>3 DEF StageInv, SavedSoFar
  <2>2. b \in Areas /\ f \in Files /\ f[1] = k
    BY SavedAt, FileNames DEF StageInv
  <2>3. i # 13 => ~ (b = SaveOrder[i][1] /\ f[1] = SaveOrder[i][2])
    BY <2>2, SavedAt
  <2>4. stage'[b][f] = stage[b][f]
    BY <1>4, <2>2, <2>3
  <2> QED  BY <2>1, <2>4, <1>1 DEF IsSaved
<1>8. Promised'
  BY <1>1, <1>4, PromiseCarried DEF StageInv, Promised, StageNext
<1>9. LiveThere'
  <2>1. <<"live", 0>> \in Files
    BY StageAssumption DEF Files, StageKeys, ListedFiles, Stamps
  <2> QED  BY <1>4, <2>1, Contents DEF StageInv, LiveThere
<1> QED  BY <1>5, <1>6, <1>7, <1>8, <1>9 DEF StageInv

LEMMA FillFileStep == StageInv /\ FillFile => StageInv'
<1> SUFFICES ASSUME StageInv, FillFile PROVE StageInv'
  OBVIOUS
<1> DEFINE b == SaveOrder[saved][1]
           k == SaveOrder[saved][2]
           f == <<k, names[b][k]>>
<1>1. /\ status = "writing" /\ status' = status /\ opened /\ opened' = FALSE /\ k # "summary"
      /\ UNCHANGED <<summary, runs, failures, conf, names, saved, complete>>
  BY DEF FillFile
<1>2. saved \in 1..12
  BY <1>1, SavedAt DEF StageInv, Typed
<1>3. b \in Areas /\ k \in StageKeys
  BY <1>2, SavedAt
<1>4. f \in Files /\ Write(b, f, Final(names[b], conf[b], k))
  BY <1>1, <1>2, <1>3, FileNames, WrittenAsPlanned DEF StageInv, FillFile, Write
<1>5. /\ stage' = [a \in Areas |-> [g \in Files |-> stage'[a][g]]]
      /\ stage'[b][f] = Final(names[b], conf[b], k)
      /\ \A a \in Areas, g \in Files : a # b \/ g # f => stage'[a][g] = stage[a][g]
  <2> HIDE DEF b, f, k
  <2> QED  BY <1>3, <1>4, StageWritten DEF StageInv
<1>6. Typed'
  <2>1. /\ runs' \in 0..MaxRuns /\ failures' \in 0..MaxFailures
        /\ conf' \in Confs /\ complete'.conf \in Confs
        /\ status' = "writing" /\ saved' \in 0..13 /\ opened' = FALSE
    BY <1>1 DEF StageInv, Typed
  <2> QED  BY <1>5, <2>1, Zenon DEF Typed
<1>7. Named'
  BY <1>1 DEF StageInv, Named
<1>8. SavedSoFar'
  <2> SUFFICES ASSUME NEW j \in 1..12, j <= saved PROVE IsSaved(j)'
    BY <1>1, <1>2 DEF SavedSoFar
  <2> DEFINE x == SaveOrder[j][1]
             y == SaveOrder[j][2]
             g == <<y, names[x][y]>>
  <2>1. CASE j = saved
    BY <2>1, <1>1, <1>5 DEF IsSaved
  <2>2. CASE j # saved
    <3>1. IsSaved(j)
      BY <2>2, <1>1, <1>2 DEF StageInv, SavedSoFar
    <3>2. x \in Areas /\ g \in Files /\ (x # b \/ g # f)
      BY <2>2, <1>2, SavedAt, FileNames DEF StageInv
    <3>3. stage'[x][g] = stage[x][g]
      BY <1>5, <3>2
    <3> QED  BY <3>1, <3>3, <1>1 DEF IsSaved
  <2> QED  BY <2>1, <2>2
<1>9. Promised'
  BY <1>1, PromiseCarried DEF StageInv, Promised, StageNext
<1>10. LiveThere'
  <2> SUFFICES ASSUME NEW a \in Areas PROVE stage'[a][<<"live", 0>>] # Missing
    BY DEF LiveThere
  <2>1. <<"live", 0>> \in Files /\ stage[a][<<"live", 0>>] # Missing
    BY StageAssumption DEF Files, StageKeys, ListedFiles, Stamps, StageInv, LiveThere
  <2>2. CASE a = b /\ f = <<"live", 0>>
    <3>1. Final(names[b], conf[b], k) = Data(conf[b][k])
      BY <2>2 DEF Final, Planned, ListedFiles
    <3>2. stage'[a][<<"live", 0>>] = Data(conf[b][k])
      BY <2>2, <3>1, <1>5
    <3> QED  BY <3>2, Contents
  <2>3. CASE ~ (a = b /\ f = <<"live", 0>>)
    BY <2>1, <2>3, <1>5
  <2> QED  BY <2>2, <2>3
<1> QED  BY <1>6, <1>7, <1>8, <1>9, <1>10 DEF StageInv

LEMMA FillSummaryStep == StageInv /\ FillSummary => StageInv'
<1> SUFFICES ASSUME StageInv, FillSummary PROVE StageInv'
  OBVIOUS
<1>1. /\ status = "writing" /\ opened = TRUE /\ SaveOrder[saved][2] = "summary"
      /\ summary' = SummaryOf(names, stage)
      /\ saved' = 0 /\ opened' = FALSE /\ status' = "done"
      /\ UNCHANGED <<stage, runs, failures, conf, names>>
      /\ complete'.conf = conf /\ complete'.summary = summary'
  BY DEF FillSummary, StageInv, Typed
<1>2. saved = 13
  BY <1>1, SavedAt DEF StageInv, Typed, StageKeys, ListedFiles
<1>3. \A i \in 1..12 : IsSaved(i)
  BY <1>1, <1>2 DEF StageInv, SavedSoFar
<1>4. ASSUME NEW a \in Areas
      PROVE  /\ \A k \in StageKeys : stage[a][<<k, names[a][k]>>] = Final(names[a], conf[a], k)
             /\ summary'[a] = Line(names[a], conf[a])
  <2>1. \A k \in StageKeys : stage[a][<<k, names[a][k]>>] = Final(names[a], conf[a], k)
    <3> SUFFICES ASSUME NEW k \in StageKeys PROVE stage[a][<<k, names[a][k]>>] = Final(names[a], conf[a], k)
      OBVIOUS
    <3>1. PICK i \in 1..12 : SaveOrder[i][1] = a /\ SaveOrder[i][2] = k
      BY SavedAt
    <3> QED  BY <3>1, <1>3 DEF IsSaved
  <2>2. stage[a][<<"signature", names[a].signature>>] = Signed(names[a], conf[a])
    BY <2>1 DEF StageKeys, Final
  <2> QED  BY <1>1, <2>1, <2>2 DEF SummaryOf, Line
<1>5. Typed'
  <2>1. stage' = [b \in Areas |-> [f \in Files |-> stage'[b][f]]]
    BY <1>1 DEF StageInv, Typed
  <2>2. /\ runs' \in 0..MaxRuns /\ failures' \in 0..MaxFailures
        /\ conf' \in Confs /\ complete'.conf \in Confs
        /\ status' = "done" /\ saved' \in 0..13 /\ opened' = FALSE
    BY <1>1 DEF StageInv, Typed
  <2> QED  BY <2>1, <2>2, Zenon DEF Typed
<1>6. Named'
  BY <1>1 DEF StageInv, Named
<1>7. SavedSoFar'
  <2>1. \A i \in 1..12 : IsSaved(i)'
    BY <1>1, <1>3 DEF IsSaved
  <2> QED  BY <2>1, <1>1, <1>4 DEF SavedSoFar
<1>8. Promised'
  <2> SUFFICES ASSUME NEW a \in Areas PROVE Tree(a, complete.summary[a], complete.conf[a])'
    BY <1>1 DEF Promised
  <2>1. PICK d \in Nat : d = runs + 1
    BY DEF StageInv, Typed
  <2>2. PICK s \in 1..d : names[a] = TreeNames(d, s)
    BY <2>1 DEF StageInv, Named
  <2>3. PICK v : v = conf[a]
    OBVIOUS
  <2>4. AllFinal(a, TreeNames(d, s), v)
    BY <1>4, <2>2, <2>3 DEF AllFinal
  <2>5. Published(a, v, d, s)
    BY <2>4, TreeWhenFinal
  <2>6. (Stands(a, Line(TreeNames(d, s), v), v, d, s))'
    BY <2>5, <1>1 DEF Published, Stands
  <2>7. complete'.summary[a] = Line(TreeNames(d, s), v) /\ complete'.conf[a] = v
    BY <1>1, <1>4, <2>2, <2>3
  <2>8. d \in 1..Latest'
    BY <2>1, <1>1 DEF Latest
  <2> QED  BY <2>6, <2>7, <2>8 DEF Tree
<1>9. LiveThere'
  BY <1>1 DEF StageInv, LiveThere
<1> QED  BY <1>5, <1>6, <1>7, <1>8, <1>9 DEF StageInv

LEMMA InterruptedStep == StageInv /\ Interrupted => StageInv'
<1> SUFFICES ASSUME StageInv, Interrupted PROVE StageInv'
  OBVIOUS
<1>1. /\ failures < MaxFailures /\ failures' = failures + 1 /\ status' = "failed"
      /\ saved' = 0 /\ opened' = FALSE
      /\ UNCHANGED <<stage, summary, runs, conf, names, complete>>
  BY DEF Interrupted
<1>2. Typed'
  <2>1. stage' = [b \in Areas |-> [f \in Files |-> stage'[b][f]]]
    BY <1>1 DEF StageInv, Typed
  <2>2. failures' \in 0..MaxFailures /\ saved' \in 0..13
    BY <1>1, StageAssumption DEF StageInv, Typed
  <2>3. /\ runs' \in 0..MaxRuns /\ conf' \in Confs /\ complete'.conf \in Confs
        /\ status' = "failed" /\ opened' = FALSE
    BY <1>1 DEF StageInv, Typed
  <2> QED  BY <2>1, <2>2, <2>3, Zenon DEF Typed
<1>3. Named' /\ LiveThere' /\ SavedSoFar'
  BY <1>1 DEF StageInv, Named, LiveThere, SavedSoFar
<1>4. Promised'
  BY <1>1, PromiseCarried DEF StageInv, Promised, StageNext
<1> QED  BY <1>2, <1>3, <1>4 DEF StageInv

LEMMA StageStep == StageInv /\ [StageNext]_stageVars => StageInv'
<1> SUFFICES ASSUME StageInv, [StageNext]_stageVars PROVE StageInv'
  OBVIOUS
<1>1. CASE UNCHANGED stageVars
  <2>1. Typed' /\ Named' /\ LiveThere'
    BY <1>1 DEF StageInv, stageVars, Typed, Named, LiveThere
  <2>2. SavedSoFar'
    BY <1>1 DEF StageInv, stageVars, SavedSoFar, IsSaved
  <2>3. Promised'
    BY <1>1, PromiseCarried DEF StageInv, Promised, stageVars
  <2> QED  BY <2>1, <2>2, <2>3 DEF StageInv
<1> QED  BY <1>1, ReconfigureStep, OpenFileStep, FillFileStep, FillSummaryStep, InterruptedStep
         DEF StageNext

-----------------------------------------------------------------------------
(* The order of the downloads. *)

LEMMA FetchedAt ==
    /\ Len(FetchOrder) = 13 /\ FetchOrder[5][2] = "check"
    /\ \A i \in 1..13 : i # 5 =>
          /\ FetchOrder[i][1] \in Areas /\ FetchOrder[i][2] \in StageKeys /\ FetchOrder[i][2] # "check"
          /\ Place(FetchOrder[i][1], FetchOrder[i][2]) = i
    /\ \A a \in Areas, k \in StageKeys :
          /\ Place(a, k) \in 1..13 /\ Place(a, k) # 5
          /\ FetchOrder[Place(a, k)] = <<a, k>>
    /\ \A a \in Areas :
          /\ Place(a, "description") < Place(a, "signature") /\ Place(a, "signature") < 5
          /\ Place(a, "list") > 5
          /\ \A k \in ListedFiles : Place(a, "list") < Place(a, k)
<1>1. /\ Len(FetchOrder) = 13
      /\ FetchOrder[1] = <<"main", "description">> /\ FetchOrder[2] = <<"main", "signature">>
      /\ FetchOrder[3] = <<"entry", "description">> /\ FetchOrder[4] = <<"entry", "signature">>
      /\ FetchOrder[5] = <<"main", "check">>
      /\ FetchOrder[6] = <<"main", "list">> /\ FetchOrder[7] = <<"main", "consts">>
      /\ FetchOrder[8] = <<"main", "script">> /\ FetchOrder[9] = <<"main", "live">>
      /\ FetchOrder[10] = <<"entry", "list">> /\ FetchOrder[11] = <<"entry", "consts">>
      /\ FetchOrder[12] = <<"entry", "script">> /\ FetchOrder[13] = <<"entry", "live">>
  BY DEF FetchOrder
<1>2. /\ Place("main", "description") = 1 /\ Place("main", "signature") = 2
      /\ Place("entry", "description") = 3 /\ Place("entry", "signature") = 4
      /\ Place("main", "list") = 6 /\ Place("main", "consts") = 7
      /\ Place("main", "script") = 8 /\ Place("main", "live") = 9
      /\ Place("entry", "list") = 10 /\ Place("entry", "consts") = 11
      /\ Place("entry", "script") = 12 /\ Place("entry", "live") = 13
  BY DEF Place
<1>3. \A k \in StageKeys : k \in {"description", "signature", "list", "consts", "script", "live"}
  BY DEF StageKeys, ListedFiles
<1>4. \A a \in Areas, k \in StageKeys :
          /\ Place(a, k) \in 1..13 /\ Place(a, k) # 5
          /\ FetchOrder[Place(a, k)] = <<a, k>>
  BY <1>1, <1>2, <1>3 DEF Areas
<1>5. \A a \in Areas :
          /\ Place(a, "description") < Place(a, "signature") /\ Place(a, "signature") < 5
          /\ Place(a, "list") > 5
          /\ \A k \in ListedFiles : Place(a, "list") < Place(a, k)
  BY <1>2 DEF Areas, ListedFiles
<1>6. \A i \in 1..13 : i # 5 =>
          /\ FetchOrder[i][1] \in Areas /\ FetchOrder[i][2] \in StageKeys /\ FetchOrder[i][2] # "check"
          /\ Place(FetchOrder[i][1], FetchOrder[i][2]) = i
  <2>1. \A i \in 1..13 : i = 1 \/ i = 2 \/ i = 3 \/ i = 4 \/ i = 5 \/ i = 6 \/ i = 7 \/ i = 8
                           \/ i = 9 \/ i = 10 \/ i = 11 \/ i = 12 \/ i = 13
    OBVIOUS
  <2> QED  BY <2>1, <1>1, <1>2 DEF Areas, StageKeys, ListedFiles
<1> QED  BY <1>1, <1>4, <1>5, <1>6

-----------------------------------------------------------------------------
(* What a download brings. *)

(* A file is asked for under the name it has in the promised tree. *)
LEMMA StampFetched ==
    ASSUME NEW a \in Areas, NEW k \in StageKeys, NEW d \in Int, NEW s \in Int,
           Downloaded(glidein, a, d, s), glidein.next = Place(a, k)
    PROVE  FetchStamp(glidein, a, k) = TreeNames(d, s)[k]
<1> DEFINE n == TreeNames(d, s)
<1>1. glidein.args[a] = Line(n, glidein.asked[a])
  BY DEF Downloaded
<1>2. \A j \in StageKeys \ {"live"} : Place(a, j) < Place(a, k) =>
         glidein.work[a][j] = Final(n, glidein.asked[a], j)
  BY DEF Downloaded
<1>3. /\ Place(a, k) \in Int /\ Place(a, "list") \in Int /\ Place(a, "description") \in Int
  BY FetchedAt DEF StageKeys
<1>4. CASE k = "description"
  <2>1. glidein.args[a].descript = n.description
    BY <1>1 DEF Line
  <2> QED  BY <2>1, <1>4, NamesOfTree DEF FetchStamp
<1>5. CASE k \in {"signature", "list"}
  <2>1. Place(a, "description") < Place(a, k)
    BY <1>5, FetchedAt DEF StageKeys
  <2>2. glidein.work[a]["description"] = DescriptionOf(n)
    BY <2>1, <1>2 DEF Final, Planned, StageKeys, ListedFiles
  <2>3. glidein.work[a].description = DescriptionOf(n)
    BY <2>2
  <2>4. DescriptionOf(n)[2][k] = n[k]
    BY <1>5, ListedNames
  <2> QED  BY <2>3, <2>4, <1>5 DEF FetchStamp
<1>6. CASE k \in ListedFiles
  <2>1. glidein.work[a]["list"] = ListOf(n)
    BY <1>6, <1>2, FetchedAt DEF Final, Planned, StageKeys, ListedFiles
  <2>2. glidein.work[a].list = ListOf(n)
    BY <2>1
  <2>3. ListOf(n)[2][k] = n[k]
    BY <1>6, ListedNames
  <2> QED  BY <2>2, <2>3, <1>6 DEF FetchStamp, ListedFiles
<1> QED  BY <1>4, <1>5, <1>6 DEF StageKeys

(* It passes the checks and is what was published, or it is truncated.       *)
LEMMA ContentFetched ==
    ASSUME LiveThere, NEW a \in Areas, NEW k \in StageKeys, NEW d \in Int, NEW s \in Int,
           Stands(a, glidein.args[a], glidein.asked[a], d, s),
           Downloaded(glidein, a, d, s), glidein.next = Place(a, k),
           NEW content, content = stage[a][<<k, FetchStamp(glidein, a, k)>>]
    PROVE  \/ /\ Accepted(glidein, a, k, content)
              /\ k # "live" => content = Final(TreeNames(d, s), glidein.asked[a], k)
           \/ ~ Accepted(glidein, a, k, content) /\ content = Torn
<1> DEFINE n == TreeNames(d, s)
           v == glidein.asked[a]
<1>1. FetchStamp(glidein, a, k) = n[k] /\ content = stage[a][<<k, n[k]>>]
  BY StampFetched
<1>2. glidein.args[a].sign = Signed(n, v)
  BY DEF Stands, Line
<1>3. CASE k = "description"
  <2>1. content = DescriptionOf(n)
    BY <1>1, <1>3, NamesOfTree DEF Stands, Planned, ListedFiles
  <2>2. Accepted(glidein, a, k, content)
    BY <2>1, <1>3, Contents DEF Accepted
  <2> QED  BY <2>1, <2>2, <1>3 DEF Final, Planned, ListedFiles
<1>4. CASE k = "signature"
  <2>1. content = Signed(n, v) /\ content = glidein.args[a].sign
    BY <1>1, <1>2, <1>4, NamesOfTree DEF Stands
  <2> QED  BY <2>1, <1>4 DEF Accepted, Final
<1>5. CASE k \notin {"description", "signature"}
  <2> DEFINE f == <<k, n[k]>>
  <2>1. k \in {"list", "consts", "script", "live"}
    BY <1>5 DEF StageKeys, ListedFiles
  <2>2. Place(a, "signature") < Place(a, k)
    <3>1. /\ Place(a, "signature") \in Int /\ Place(a, "list") \in Int /\ Place(a, k) \in Int
          /\ Place(a, "signature") < 5 /\ Place(a, "list") > 5
      BY FetchedAt DEF StageKeys
    <3>2. k = "list" \/ Place(a, "list") < Place(a, k)
      BY <2>1, FetchedAt DEF ListedFiles
    <3> QED  BY <3>1, <3>2
  <2>3. glidein.work[a]["signature"] = Signed(n, v)
    BY <2>2 DEF Downloaded, StageKeys, Final
  <2>4. Accepted(glidein, a, k, content) <=>
           content # Missing /\ (f \in DOMAIN Signed(n, v)[2] => content = Signed(n, v)[2][f])
    BY <2>3, <1>1, <1>5 DEF Accepted, CheckSignature
  <2>5. CASE k = "live"
    <3>1. n[k] = 0 /\ f \notin DOMAIN Signed(n, v)[2]
      <4>1. n["live"] = 0
        BY NamesOfTree
      <4>2. DOMAIN Signed(n, v)[2] = {<<"consts", s>>, <<"script", d>>, <<"list", d>>, <<"description", d>>}
        BY SignedOfTree
      <4> QED  BY <4>1, <4>2, <2>5
    <3>2. content # Missing
      BY <3>1, <2>5, <1>1 DEF LiveThere
    <3> QED  BY <3>1, <3>2, <2>4, <2>5
  <2>6. CASE k # "live"
    <3>1. f \in DOMAIN Signed(n, v)[2] /\ Signed(n, v)[2][f] = Final(n, v, k)
      <4>1. k \in {"consts", "script", "list", "description"}
        BY <2>1, <2>6
      <4>2. f \in DOMAIN Signed(n, v)[2] /\ Signed(n, v)[2][f] = Planned(n, v, k)
        BY <4>1, SignedFile
      <4> QED  BY <4>2, <1>5 DEF Final
    <3>2. Final(n, v, k) # Missing /\ Final(n, v, k) # Torn
      BY <2>1, <2>6, Contents DEF Final, Planned, ListedFiles
    <3>3. content = Final(n, v, k) \/ content = Torn
      BY <2>1, <2>6, <1>1, NamesOfTree DEF Stands, Final, Planned, ListedFiles
    <3> HIDE DEF f, n, v
    <3> QED  BY <3>1, <3>2, <3>3, <2>4, Contents DEF n, v
  <2> QED  BY <2>5, <2>6
<1> QED  BY <1>3, <1>4, <1>5

-----------------------------------------------------------------------------
(* The invariant of the glidein, step by step. *)

(* The tree a glidein is after, in one area. *)
Owed(a, d, s) ==
    Stands(a, glidein.args[a], glidein.asked[a], d, s) /\ Downloaded(glidein, a, d, s)

LEMMA StageKeepsGlidein ==
    StageInv /\ GlideinInv /\ [StageNext]_stageVars /\ UNCHANGED glidein => GlideinInv'
<1> SUFFICES ASSUME StageInv, GlideinInv, [StageNext]_stageVars, UNCHANGED glidein
             PROVE  GlideinInv'
  OBVIOUS
<1>1. CASE glidein.phase = "none"
  BY <1>1 DEF GlideinInv
<1>2. CASE glidein.phase # "none"
  <2>1. GlideinTyped'
    BY <1>2 DEF GlideinInv, GlideinTyped
  <2>2. ASSUME NEW a \in Areas
        PROVE  (\E d \in 1..Latest : \E s \in 1..d : Stands(a, glidein.args[a], glidein.asked[a], d, s)
                                                      /\ Downloaded(glidein, a, d, s))'
    <3>1. PICK d \in 1..Latest : \E s \in 1..d : Stands(a, glidein.args[a], glidein.asked[a], d, s)
                                                 /\ Downloaded(glidein, a, d, s)
      BY <1>2 DEF GlideinInv
    <3>2. PICK s \in 1..d : Stands(a, glidein.args[a], glidein.asked[a], d, s)
                            /\ Downloaded(glidein, a, d, s)
      BY <3>1
    <3>3. PICK line : line = glidein.args[a]
      OBVIOUS
    <3>4. PICK v : v = glidein.asked[a]
      OBVIOUS
    <3>5. d \in 1..Latest' /\ Stands(a, line, v, d, s)'
      BY <3>2, <3>3, <3>4, TreeKeeps
    <3>6. glidein'.args[a] = line /\ glidein'.asked[a] = v
      BY <3>3, <3>4
    <3>7. Downloaded(glidein, a, d, s)'
      BY <3>2 DEF Downloaded
    <3> QED  BY <3>5, <3>6, <3>7
  <2> QED  BY <2>1, <2>2, <1>2 DEF GlideinInv
<1> QED  BY <1>1, <1>2

LEMMA SubmitStep == StageInv /\ GlideinInv /\ SubmitGlidein => GlideinInv'
<1> SUFFICES ASSUME StageInv, GlideinInv, SubmitGlidein PROVE GlideinInv'
  OBVIOUS
<1> DEFINE w == [a \in Areas |-> [k \in StageKeys |-> Missing]]
<1>1. /\ Written(summary)
      /\ glidein' = [phase |-> "fetching", args |-> summary, asked |-> complete.conf, next |-> 1,
                     work |-> w, fault |-> FALSE]
      /\ UNCHANGED stageVars
  BY DEF SubmitGlidein
<1>2. w = [a \in Areas |-> [k \in StageKeys |-> w[a][k]]]
  OBVIOUS
<1> HIDE DEF w
<1>3. GlideinTyped'
  BY <1>1, <1>2 DEF GlideinTyped
<1>4. summary = complete.summary
  BY <1>1 DEF StageInv, Promised, Written
<1>5. ASSUME NEW a \in Areas
      PROVE  (\E d \in 1..Latest : \E s \in 1..d : Stands(a, glidein.args[a], glidein.asked[a], d, s)
                                                    /\ Downloaded(glidein, a, d, s))'
  <2>1. PICK line : line = complete.summary[a]
    OBVIOUS
  <2>2. PICK v : v = complete.conf[a]
    OBVIOUS
  <2>3. PICK d \in 1..Latest : \E s \in 1..d : Stands(a, line, v, d, s)
    BY <2>1, <2>2 DEF StageInv, Promised, Tree
  <2>4. PICK s \in 1..d : Stands(a, line, v, d, s)
    BY <2>3
  <2>5. d \in 1..Latest' /\ Stands(a, line, v, d, s)'
    BY <2>4, <1>1, TreeKeeps
  <2>6. glidein'.args[a] = line /\ glidein'.asked[a] = v /\ glidein'.next = 1
    BY <2>1, <2>2, <1>1, <1>4
  <2>7. Downloaded(glidein, a, d, s)'
    BY <2>4, <2>6, FetchedAt DEF Downloaded, Stands
  <2> QED  BY <2>5, <2>6, <2>7
<1>6. glidein'.phase = "fetching"
  BY <1>1
<1> QED  BY <1>3, <1>5, <1>6 DEF GlideinInv

(* A glidein that ends keeps what it has. *)
LEMMA EndedStep ==
    ASSUME StageInv, GlideinInv, glidein.phase = "fetching", UNCHANGED stageVars,
           glidein' = [glidein EXCEPT !.phase = "failed", !.fault = TRUE]
    PROVE  GlideinInv'
<1>1. GlideinTyped
  BY DEF GlideinInv
<1>2. glidein' = [phase |-> "failed", args |-> glidein.args, asked |-> glidein.asked,
                  next |-> glidein.next, work |-> glidein.work, fault |-> TRUE]
  BY <1>1 DEF GlideinTyped
<1>3. GlideinTyped'
  <2>1. /\ glidein.work = [a \in Areas |-> [k \in StageKeys |-> glidein.work[a][k]]]
        /\ glidein.next \in 1..14
    BY <1>1 DEF GlideinTyped
  <2>2. /\ glidein'.phase = "failed" /\ glidein'.next = glidein.next /\ glidein'.work = glidein.work
        /\ glidein'.fault = TRUE
        /\ glidein' = [phase |-> glidein'.phase, args |-> glidein'.args, asked |-> glidein'.asked,
                       next |-> glidein'.next, work |-> glidein'.work, fault |-> glidein'.fault]
    BY <1>2
  <2>3. /\ glidein'.work = [a \in Areas |-> [k \in StageKeys |-> glidein'.work[a][k]]]
        /\ glidein'.next \in 1..14
        /\ glidein'.phase # "fetching" /\ glidein'.phase # "running"
    BY <2>1, <2>2
  <2> QED  BY <2>2, <2>3, Zenon DEF GlideinTyped
<1>4. \A a \in Areas : \E d \in 1..Latest : \E s \in 1..d : Owed(a, d, s)
  BY DEF GlideinInv, Owed
<1>5. \A a \in Areas : \A d, s : Owed(a, d, s) => Owed(a, d, s)'
  BY <1>2 DEF Owed, Stands, Downloaded, BeingWritten, stageVars
<1>6. Latest' = Latest
  BY DEF Latest, stageVars
<1>7. \A a \in Areas : \E d \in 1..Latest' : \E s \in 1..d : Owed(a, d, s)'
  BY <1>4, <1>5, <1>6
<1> QED  BY <1>2, <1>3, <1>7 DEF GlideinInv, Owed

(* A glidein that goes on has one step behind it. *)
LEMMA AfterStepFields ==
    ASSUME GlideinTyped, NEW g, NEW work,
           g = [phase |-> glidein.phase, args |-> glidein.args, asked |-> glidein.asked,
                next |-> glidein.next, work |-> work, fault |-> glidein.fault]
    PROVE  AfterStep(g) =
              [phase |-> IF glidein.next = 13 THEN "running" ELSE glidein.phase,
               args |-> glidein.args, asked |-> glidein.asked, next |-> glidein.next + 1,
               work |-> work, fault |-> glidein.fault]
<1>1. Len(FetchOrder) = 13
  BY FetchedAt
<1> DEFINE p == IF glidein.next = 13 THEN "running" ELSE glidein.phase
<1>2. AfterStep(g) = [g EXCEPT !.next = glidein.next + 1, !.phase = p]
  BY <1>1 DEF AfterStep
<1> HIDE DEF p
<1>3. AfterStep(g) = [phase |-> p, args |-> glidein.args, asked |-> glidein.asked,
                      next |-> glidein.next + 1, work |-> work, fault |-> glidein.fault]
  BY <1>2
<1> QED  BY <1>3 DEF p

LEMMA GoneOnTyped ==
    ASSUME GlideinTyped, glidein.phase = "fetching", NEW work,
           work = [a \in Areas |-> [k \in StageKeys |-> work[a][k]]],
           glidein' = [phase |-> IF glidein.next = 13 THEN "running" ELSE glidein.phase,
                       args |-> glidein.args, asked |-> glidein.asked, next |-> glidein.next + 1,
                       work |-> work, fault |-> glidein.fault]
    PROVE  GlideinTyped' /\ glidein'.phase \in {"fetching", "running"}
<1>1. /\ glidein'.phase = (IF glidein.next = 13 THEN "running" ELSE "fetching")
      /\ glidein'.next = glidein.next + 1 /\ glidein'.work = work
      /\ glidein' = [phase |-> glidein'.phase, args |-> glidein'.args, asked |-> glidein'.asked,
                     next |-> glidein'.next, work |-> glidein'.work, fault |-> glidein'.fault]
  OBVIOUS
<1>2. glidein'.next \in 1..14 /\ (glidein'.next = 14 <=> glidein.next = 13)
  BY <1>1 DEF GlideinTyped
<1>3. /\ glidein'.phase \in {"fetching", "running"}
      /\ glidein'.phase = "fetching" => glidein'.next # 14
      /\ glidein'.phase = "running" => glidein'.next = 14
      /\ glidein'.phase # "failed"
  BY <1>1, <1>2
<1> QED  BY <1>1, <1>2, <1>3, Zenon DEF GlideinTyped

LEMMA FetchStep == StageInv /\ GlideinInv /\ FetchFile => GlideinInv'
<1> SUFFICES ASSUME StageInv, GlideinInv, FetchFile PROVE GlideinInv'
  OBVIOUS
<1> DEFINE a == FetchOrder[glidein.next][1]
           k == FetchOrder[glidein.next][2]
           content == stage[a][<<k, FetchStamp(glidein, a, k)>>]
<1>1. /\ glidein.phase = "fetching" /\ k # "check" /\ UNCHANGED stageVars
      /\ glidein' = IF Accepted(glidein, a, k, content)
                    THEN AfterStep([glidein EXCEPT !.work[a][k] = content])
                    ELSE [glidein EXCEPT !.phase = "failed", !.fault = (content = Torn)]
  BY DEF FetchFile
<1>2. GlideinTyped /\ \A b \in Areas : \E d \in 1..Latest : \E s \in 1..d : Owed(b, d, s)
  BY <1>1 DEF GlideinInv, Owed
<1>3. glidein.next \in 1..13 /\ glidein.next # 5
  BY <1>1, <1>2, FetchedAt DEF GlideinTyped
<1>4. a \in Areas /\ k \in StageKeys /\ glidein.next = Place(a, k)
  BY <1>3, FetchedAt
<1> HIDE DEF a, k, content
<1>5. ASSUME NEW d \in 1..Latest, NEW s \in 1..d, Owed(a, d, s)
      PROVE  \/ /\ Accepted(glidein, a, k, content)
                /\ k # "live" => content = Final(TreeNames(d, s), glidein.asked[a], k)
             \/ ~ Accepted(glidein, a, k, content) /\ content = Torn
  <2>1. d \in Int /\ s \in Int
    BY DEF Latest, StageInv, Typed
  <2>2. content = stage[a][<<k, FetchStamp(glidein, a, k)>>]
    BY DEF content
  <2> QED  BY <2>1, <2>2, <1>4, <1>5, ContentFetched DEF Owed, StageInv
<1>6. CASE ~ Accepted(glidein, a, k, content)
  <2>1. content = Torn
    BY <1>2, <1>4, <1>5, <1>6
  <2>2. glidein' = [glidein EXCEPT !.phase = "failed", !.fault = TRUE]
    BY <2>1, <1>1, <1>6
  <2> QED  BY <2>2, <1>1, EndedStep
<1>7. CASE Accepted(glidein, a, k, content)
  <2> DEFINE work == [glidein.work EXCEPT ![a][k] = content]
             g == [glidein EXCEPT !.work[a][k] = content]
  <2>1. g = [phase |-> glidein.phase, args |-> glidein.args, asked |-> glidein.asked,
             next |-> glidein.next, work |-> work, fault |-> glidein.fault]
    <3>1. g = [glidein EXCEPT !.work = work]
      OBVIOUS
    <3> HIDE DEF work, g
    <3> QED  BY <3>1, <1>2 DEF GlideinTyped
  <2>2. glidein' = AfterStep(g)
    BY <1>1, <1>7
  <2>3. /\ work = [b \in Areas |-> [j \in StageKeys |-> work[b][j]]]
        /\ work[a][k] = content
        /\ \A b \in Areas, j \in StageKeys : b # a \/ j # k => work[b][j] = glidein.work[b][j]
    <3>1. /\ glidein.work = [b \in Areas |-> glidein.work[b]]
          /\ \A b \in Areas : glidein.work[b] = [j \in StageKeys |-> glidein.work[b][j]]
      BY <1>2 DEF GlideinTyped
    <3>2. /\ work = [b \in Areas |-> work[b]]
          /\ work[a] = [glidein.work[a] EXCEPT ![k] = content]
          /\ \A b \in Areas : b # a => work[b] = glidein.work[b]
      BY <3>1, <1>4
    <3> HIDE DEF work
    <3>3. \A b \in Areas : work[b] = [j \in StageKeys |-> work[b][j]]
      BY <3>1, <3>2
    <3> QED  BY <3>1, <3>2, <3>3, <1>4
  <2> HIDE DEF work, g
  <2>4. glidein' = [phase |-> IF glidein.next = 13 THEN "running" ELSE glidein.phase,
                    args |-> glidein.args, asked |-> glidein.asked, next |-> glidein.next + 1,
                    work |-> work, fault |-> glidein.fault]
    BY <2>1, <2>2, <1>2, AfterStepFields
  <2>5. GlideinTyped' /\ glidein'.phase \in {"fetching", "running"}
    BY <2>3, <2>4, <1>1, <1>2, GoneOnTyped
  <2>6. /\ glidein'.args = glidein.args /\ glidein'.asked = glidein.asked
        /\ glidein'.next = glidein.next + 1 /\ glidein'.work = work
    BY <2>4
  <2>7. ASSUME NEW b \in Areas, NEW d \in 1..Latest, NEW s \in 1..d, Owed(b, d, s)
        PROVE  Owed(b, d, s)'
    <3>1. Stands(b, glidein.args[b], glidein.asked[b], d, s)'
      BY <2>6, <2>7, <1>1 DEF Owed, Stands, BeingWritten, stageVars
    <3>2. ASSUME NEW j \in StageKeys \ {"live"}, Place(b, j) < glidein.next + 1
          PROVE  work[b][j] = Final(TreeNames(d, s), glidein.asked[b], j)
      <4>1. CASE b = a /\ j = k
        BY <4>1, <2>3, <2>7, <1>5, <1>7
      <4>2. CASE ~ (b = a /\ j = k)
        <5>1. Place(b, j) # Place(a, k) /\ Place(b, j) \in Int
          BY <4>2, <1>4, FetchedAt
        <5>2. Place(b, j) < glidein.next
          BY <5>1, <3>2, <1>3, <1>4
        <5> QED  BY <5>2, <4>2, <2>3, <2>7 DEF Owed, Downloaded
      <4> QED  BY <4>1, <4>2
    <3>3. Downloaded(glidein, b, d, s)'
      BY <3>2, <2>6, <2>7 DEF Owed, Downloaded
    <3> QED  BY <3>1, <3>3 DEF Owed
  <2>8. Latest' = Latest
    BY <1>1 DEF Latest, stageVars
  <2>9. \A b \in Areas : \E d \in 1..Latest' : \E s \in 1..d : Owed(b, d, s)'
    BY <1>2, <2>7, <2>8
  <2> QED  BY <2>5, <2>9 DEF GlideinInv, Owed
<1> QED  BY <1>6, <1>7

LEMMA CheckStep == StageInv /\ GlideinInv /\ CheckDescriptions => GlideinInv'
<1> SUFFICES ASSUME StageInv, GlideinInv, CheckDescriptions PROVE GlideinInv'
  OBVIOUS
<1>1. /\ glidein.phase = "fetching" /\ FetchOrder[glidein.next][2] = "check" /\ UNCHANGED stageVars
      /\ glidein' = IF \A a \in Areas : CheckSignature(glidein, a,
                          <<"description", glidein.args[a].descript>>, glidein.work[a].description)
                    THEN AfterStep(glidein)
                    ELSE [glidein EXCEPT !.phase = "failed"]
  BY DEF CheckDescriptions
<1>2. GlideinTyped /\ \A b \in Areas : \E d \in 1..Latest : \E s \in 1..d : Owed(b, d, s)
  BY <1>1 DEF GlideinInv, Owed
<1>3. glidein.next = 5
  BY <1>1, <1>2, FetchedAt DEF GlideinTyped
<1>4. ASSUME NEW a \in Areas
      PROVE  CheckSignature(glidein, a, <<"description", glidein.args[a].descript>>, glidein.work[a].description)
  <2>1. PICK d \in 1..Latest : \E s \in 1..d : Owed(a, d, s)
    BY <1>2
  <2>2. PICK s \in 1..d : Owed(a, d, s)
    BY <2>1
  <2> DEFINE n == TreeNames(d, s)
             v == glidein.asked[a]
  <2>3. Place(a, "description") < 5 /\ Place(a, "signature") < 5
    BY DEF Place
  <2>4. /\ glidein.work[a]["description"] = DescriptionOf(n)
        /\ glidein.work[a]["signature"] = Signed(n, v)
    BY <2>2, <2>3, <1>3 DEF Owed, Downloaded, Final, Planned, StageKeys, ListedFiles
  <2>5. glidein.args[a].descript = n["description"]
    BY <2>2, NamesOfTree DEF Owed, Downloaded, Line
  <2>6. Signed(n, v)[2][<<"description", n["description"]>>] = Planned(n, v, "description")
    BY SignedFile
  <2>7. Planned(n, v, "description") = DescriptionOf(n)
    BY DEF Planned, ListedFiles
  <2> HIDE DEF n, v
  <2> QED  BY <2>4, <2>5, <2>6, <2>7 DEF CheckSignature
<1>5. glidein' = AfterStep(glidein)
  BY <1>1, <1>4
<1> DEFINE work == glidein.work
<1>6. /\ work = [a \in Areas |-> [k \in StageKeys |-> work[a][k]]]
      /\ glidein = [phase |-> glidein.phase, args |-> glidein.args, asked |-> glidein.asked,
                    next |-> glidein.next, work |-> work, fault |-> glidein.fault]
  BY <1>2 DEF GlideinTyped
<1>7. glidein' = [phase |-> IF glidein.next = 13 THEN "running" ELSE glidein.phase,
                  args |-> glidein.args, asked |-> glidein.asked, next |-> glidein.next + 1,
                  work |-> work, fault |-> glidein.fault]
  BY <1>2, <1>5, <1>6, AfterStepFields
<1>8. GlideinTyped' /\ glidein'.phase \in {"fetching", "running"}
  BY <1>1, <1>2, <1>6, <1>7, GoneOnTyped
<1>9. /\ glidein'.args = glidein.args /\ glidein'.asked = glidein.asked
      /\ glidein'.next = 6 /\ glidein'.work = glidein.work
  BY <1>3, <1>7
<1>10. ASSUME NEW b \in Areas, NEW d \in 1..Latest, NEW s \in 1..d, Owed(b, d, s)
       PROVE  Owed(b, d, s)'
  <2>1. Stands(b, glidein.args[b], glidein.asked[b], d, s)'
    BY <1>1, <1>9, <1>10 DEF Owed, Stands, BeingWritten, stageVars
  <2>2. \A j \in StageKeys : Place(b, j) < 6 => Place(b, j) < 5
    BY DEF Place, StageKeys, ListedFiles
  <2>3. Downloaded(glidein, b, d, s)'
    BY <2>2, <1>3, <1>9, <1>10 DEF Owed, Downloaded
  <2> QED  BY <2>1, <2>3 DEF Owed
<1>11. Latest' = Latest
  BY <1>1 DEF Latest, stageVars
<1>12. \A b \in Areas : \E d \in 1..Latest' : \E s \in 1..d : Owed(b, d, s)'
  BY <1>2, <1>10, <1>11
<1> QED  BY <1>8, <1>12 DEF GlideinInv, Owed

LEMMA Invariance == IInv /\ [StartupNext]_vars => IInv'
<1> SUFFICES ASSUME StageInv, GlideinInv, [StartupNext]_vars PROVE StageInv' /\ GlideinInv'
  BY DEF IInv
<1>1. CASE [StageNext]_stageVars /\ UNCHANGED glidein
  BY <1>1, StageStep, StageKeepsGlidein
<1>2. CASE SubmitGlidein
  BY <1>2, StageStep, SubmitStep DEF SubmitGlidein
<1>3. CASE FetchFile
  BY <1>3, StageStep, FetchStep DEF FetchFile
<1>4. CASE CheckDescriptions
  BY <1>4, StageStep, CheckStep DEF CheckDescriptions
<1>5. CASE DownloadFails
  BY <1>5, StageStep, EndedStep DEF DownloadFails
<1> QED  BY <1>1, <1>2, <1>3, <1>4, <1>5 DEF StartupNext, vars

-----------------------------------------------------------------------------
(* The theorems. *)

(* The invariant holds in every behaviour: every published tree stands, and  *)
(* a glidein has of its tree what was published.                             *)
THEOREM InvariantHolds == StartupSpec => []IInv
<1>1. StartupInit => IInv
  BY InitStageInv DEF StartupInit, IInv, GlideinInv, NotSubmitted
<1> QED  BY <1>1, Invariance, PTL DEF StartupSpec

LEMMA TreeOfRun ==
    ASSUME StageInv, status = "done", NEW a \in Areas
    PROVE  \E d, s : /\ names[a] = TreeNames(d, s) /\ AllFinal(a, TreeNames(d, s), conf[a])
                     /\ summary[a] = Line(TreeNames(d, s), conf[a])
<1>1. PICK s \in 1..runs + 1 : names[a] = TreeNames(runs + 1, s)
  BY DEF StageInv, Named
<1>2. \A k \in StageKeys : stage[a][<<k, names[a][k]>>] = Final(names[a], conf[a], k)
  <2> SUFFICES ASSUME NEW k \in StageKeys PROVE stage[a][<<k, names[a][k]>>] = Final(names[a], conf[a], k)
    OBVIOUS
  <2>1. PICK i \in 1..12 : SaveOrder[i][1] = a /\ SaveOrder[i][2] = k
    BY SavedAt
  <2>2. IsSaved(i)
    BY DEF StageInv, SavedSoFar
  <2> QED  BY <2>1, <2>2 DEF IsSaved
<1> QED  BY <1>1, <1>2 DEF AllFinal, StageInv, SavedSoFar

(* A reconfiguration that ran to its end (reconfig_glidein, save_dicts) has  *)
(* published its configuration: from signatures.sha1 every file is found     *)
(* with the content it was configured with, and every signed hash is right.  *)
THEOREM ConfigurationPublished == StartupSpec => []CurrentIsConfigured
<1>1. StageInv => CurrentIsConfigured
  <2> SUFFICES ASSUME StageInv, status = "done", NEW a \in Areas
               PROVE  LET d    == stage[a][<<"description", summary[a].descript>>]
                          list == stage[a][<<"list", d[2].list>>]
                      IN  /\ d[1] = "description" /\ list[1] = "list"
                          /\ \A k \in ListedFiles : stage[a][<<k, list[2][k]>>] = Data(conf[a][k])
                          /\ stage[a][<<"signature", d[2].signature>>] = summary[a].sign
                          /\ \A f \in DOMAIN SignedFiles(a, summary[a]) :
                                stage[a][f] = SignedFiles(a, summary[a])[f]
    BY DEF CurrentIsConfigured
  <2> DEFINE v == conf[a]
  <2>1. PICK e, s : /\ AllFinal(a, TreeNames(e, s), v) /\ summary[a] = Line(TreeNames(e, s), v)
    BY TreeOfRun
  <2> DEFINE n == TreeNames(e, s)
  <2>2. n["description"] = e /\ n["list"] = e /\ n["signature"] = e /\ n.description = e
    BY NamesOfTree
  <2>3. summary[a].descript = e /\ summary[a].sign = Signed(n, v)
    BY <2>1, <2>2 DEF Line
  <2>4. /\ stage[a][<<"description", e>>] = DescriptionOf(n)
        /\ stage[a][<<"list", e>>] = ListOf(n)
        /\ stage[a][<<"signature", e>>] = Signed(n, v)
    BY <2>1, <2>2 DEF AllFinal, Final, Planned, StageKeys, ListedFiles
  <2>5. /\ DescriptionOf(n)[1] = "description" /\ DescriptionOf(n)[2].list = e
        /\ DescriptionOf(n)[2].signature = e
        /\ ListOf(n)[1] = "list" /\ \A k \in ListedFiles : ListOf(n)[2][k] = n[k]
    BY <2>2, Contents, ListedNames
  <2>6. \A k \in ListedFiles : stage[a][<<k, n[k]>>] = Data(v[k])
    BY <2>1 DEF AllFinal, Final, Planned, StageKeys, ListedFiles
  <2>7. \A f \in SignedNames(n) : stage[a][f] = Planned(n, v, f[1])
    <3>1. \A k \in {"consts", "script", "list", "description"} : stage[a][<<k, n[k]>>] = Planned(n, v, k)
      BY <2>1 DEF AllFinal, Final, StageKeys, ListedFiles
    <3>2. \A f \in SignedNames(n) : \E k \in {"consts", "script", "list", "description"} : f = <<k, n[k]>>
      BY DEF SignedNames, Immutable, ListedFiles
    <3> HIDE DEF n, v
    <3> QED  BY <3>1, <3>2
  <2> HIDE DEF n, v
  <2>8. \A f \in DOMAIN Signed(n, v)[2] : stage[a][f] = Signed(n, v)[2][f]
    BY <2>7 DEF Signed
  <2> QED  BY <2>3, <2>4, <2>5, <2>6, <2>8 DEF v, SignedFiles
<1> QED  BY <1>1, InvariantHolds, PTL DEF IInv

(* The trees that are promised, to new glideins by signatures.sha1 and to    *)
(* the submitted one by its arguments, stay as they were published, whatever *)
(* reconfigurations follow and wherever they stop: nothing but the consts    *)
(* file is ever opened again, and it is filled with what it held.            *)
THEOREM TreesKept == StartupSpec => []PromiseKept
<1>1. ASSUME NEW a \in Areas, NEW line, NEW v, NEW d \in Int, NEW s \in Int, Stands(a, line, v, d, s)
      PROVE  /\ line.sign[1] = "signature"
             /\ \A f \in DOMAIN SignedFiles(a, line) :
                   \/ stage[a][f] = SignedFiles(a, line)[f] /\ Written(stage[a][f])
                   \/ stage[a][f] = Torn /\ (failures > 0 \/ BeingWritten(a, f))
  <2> DEFINE n == TreeNames(d, s)
  <2>1. line.sign = Signed(n, v)
    BY <1>1 DEF Stands, Line
  <2>2. Signed(n, v)[1] = "signature" /\ DOMAIN Signed(n, v)[2] = SignedNames(n)
    BY DEF Signed
  <2>3. \A f \in SignedNames(n) : \E k \in {"consts", "script", "list", "description"} : f = <<k, n[k]>>
    BY DEF SignedNames, Immutable, ListedFiles
  <2>4. ASSUME NEW k \in {"consts", "script", "list", "description"}
        PROVE  LET f == <<k, n[k]>>
               IN  \/ stage[a][f] = Signed(n, v)[2][f] /\ Written(stage[a][f])
                   \/ stage[a][f] = Torn /\ (failures > 0 \/ BeingWritten(a, f))
    <3> DEFINE f == <<k, n[k]>>
    <3>1. Signed(n, v)[2][f] = Planned(n, v, k)
      BY SignedFile
    <3>2. Written(Planned(n, v, k))
      BY Contents DEF Planned, ListedFiles, Written
    <3>3. n["consts"] = s /\ n["script"] = d /\ n["list"] = d /\ n["description"] = d
      BY NamesOfTree
    <3>4. Planned(n, v, "consts") = Data(v["consts"])
      BY DEF Planned, ListedFiles
    <3>5. /\ \A j \in {"script", "list", "description"} : stage[a][<<j, d>>] = Planned(n, v, j)
          /\ \/ stage[a][<<"consts", s>>] = Planned(n, v, "consts")
             \/ stage[a][<<"consts", s>>] = Torn /\ (failures > 0 \/ BeingWritten(a, <<"consts", s>>))
      BY <1>1, <3>4 DEF Stands
    <3> HIDE DEF n
    <3>6. CASE k = "consts"
      BY <3>1, <3>2, <3>3, <3>5, <3>6
    <3>7. CASE k # "consts"
      BY <3>1, <3>2, <3>3, <3>5, <3>7
    <3> QED  BY <3>6, <3>7
  <2> HIDE DEF n
  <2> QED  BY <2>1, <2>2, <2>3, <2>4 DEF SignedFiles
<1>2. IInv => PromiseKept
  <2> SUFFICES ASSUME StageInv, GlideinInv PROVE PromiseKept
    BY DEF IInv
  <2>1. Latest \in Int
    BY DEF Latest, StageInv, Typed
  <2>2. ASSUME Written(summary) PROVE TreeKept(summary)
    <3> SUFFICES ASSUME NEW a \in Areas
                 PROVE  \E v : \E d, s \in Int : Stands(a, summary[a], v, d, s)
      BY <1>1 DEF TreeKept
    <3>1. summary = complete.summary
      BY <2>2 DEF StageInv, Promised, Written
    <3> QED  BY <2>1, <3>1 DEF StageInv, Promised, Tree
  <2>3. ASSUME glidein.phase = "fetching" PROVE TreeKept(glidein.args)
    <3> SUFFICES ASSUME NEW a \in Areas
                 PROVE  \E v : \E d, s \in Int : Stands(a, glidein.args[a], v, d, s)
      BY <1>1 DEF TreeKept
    <3> QED  BY <2>1, <2>3 DEF GlideinInv
  <2> QED  BY <2>2, <2>3 DEF PromiseKept
<1> QED  BY <1>2, InvariantHolds, PTL

(* A glidein that starts its daemons runs in both areas the configuration in *)
(* force when it was submitted, and no mixture of it with a later one.       *)
THEOREM OneConfiguration == StartupSpec => []RunsAsPromised
<1>1. IInv => RunsAsPromised
  <2> SUFFICES ASSUME GlideinInv, glidein.phase = "running", NEW a \in Areas, NEW k \in Immutable
               PROVE  glidein.work[a][k] = Data(glidein.asked[a][k])
    BY DEF IInv, RunsAsPromised
  <2>1. glidein.next = 14
    BY DEF GlideinInv, GlideinTyped
  <2>2. PICK d, s : Downloaded(glidein, a, d, s)
    BY DEF GlideinInv
  <2>3. k \in StageKeys \ {"live"} /\ k \in ListedFiles /\ Place(a, k) < 14
    BY DEF Immutable, StageKeys, ListedFiles, Place
  <2>4. glidein.work[a][k] = Final(TreeNames(d, s), glidein.asked[a], k)
    BY <2>1, <2>2, <2>3 DEF Downloaded
  <2> QED  BY <2>3, <2>4 DEF Final, Planned, ListedFiles
<1> QED  BY <1>1, InvariantHolds, PTL

(* Reconfigurations make no glidein fail: one that ends before it runs had a *)
(* download fail, or met the consts file while it was truncated.             *)
THEOREM FailsOfFaults == StartupSpec => []OnlyFaultsFail
<1>1. IInv => OnlyFaultsFail
  BY DEF IInv, GlideinInv, GlideinTyped, OnlyFaultsFail
<1> QED  BY <1>1, InvariantHolds, PTL
=============================================================================
