----------------------------- MODULE LintProofs -----------------------------
(***************************************************************************)
(* That a file is linted with the filters of its own directories; that the *)
(* exit status and the counts tell what was reported; that of what is      *)
(* wrong on the lines of a file, its functions and its includes, the       *)
(* report holds what its comments and the filters let through, and nothing *)
(* else; that the stack of blocks follows the braces, or the first         *)
(* branches of conditionals. For the first, the                            *)
(* search for the configuration of one file (ConfigInv) is followed up the *)
(* directories, and behind every file the filters are set back. For the    *)
(* others, each error that is printed is counted (ReportInv), and what a   *)
(* line leaves behind it tells of the lines before: the blocks (LineInv,   *)
(* BlockInv, BranchInv), the function that is open (FunctionInv), the      *)
(* headers heard of and their section (IncludeInv).                        *)
(***************************************************************************)
EXTENDS LintLemmas

\* Lists of filters as one: what the function behind LastFirst holds.
FilterRun(lists) ==
  CHOOSE h : h = [k \in 0..Len(lists) |-> IF k = 0 THEN <<>> ELSE lists[k] \o h[k - 1]]

\* It exists, and holds lists of filters.
LEMMA FilterRunUnfolds ==
  ASSUME NEW lists \in Seq(FilterLists)
  PROVE  /\ FilterRun(lists)[0] = <<>>
         /\ \A i \in 1..Len(lists) : FilterRun(lists)[i] = lists[i] \o FilterRun(lists)[i - 1]
         /\ \A i \in 0..Len(lists) : FilterRun(lists)[i] \in FilterLists
         /\ LastFirst(lists) = FilterRun(lists)[Len(lists)]
<1> DEFINE n == Len(lists)
           IsIt(h) == h = [k \in 0..n |-> IF k = 0 THEN <<>> ELSE lists[k] \o h[k - 1]]
<1>1. n \in Nat /\ \A i \in 1..n : lists[i] \in FilterLists
  BY LenProperties, ElementOfSeq
<1>2. \A v, w \in FilterLists : v \o w \in FilterLists
  BY ConcatProperties DEF FilterLists
<1>3. <<>> \in FilterLists
  BY EmptySeq DEF FilterLists
<1>4. PICK h : IsIt(h) /\ \A k \in 0..n : h[k] \in FilterLists
  <2> DEFINE put == [k \in 1..n |-> [v \in FilterLists |-> lists[k] \o v]]
  <2>1. \A k \in 1..n : \A v \in FilterLists : put[k][v] = lists[k] \o v
    OBVIOUS
  <2>2. \A k \in 1..n : \A v \in FilterLists : put[k][v] \in FilterLists
    BY <1>1, <1>2, <2>1
  <2> HIDE DEF put, n
  <2>3. PICK h : Unrolls(n, FilterLists, <<>>, put, h)
    BY <1>1, <1>3, <2>2, RecursionExists
  <2>4. IsIt(h)
    <3>1. \A k \in 1..n : k - 1 \in 0..n /\ h[k - 1] \in FilterLists
      BY <1>1, <2>3 DEF Unrolls
    <3>2. \A k \in 0..n : h[k] = IF k = 0 THEN <<>> ELSE lists[k] \o h[k - 1]
      BY <1>1, <2>1, <2>3, <3>1 DEF Unrolls
    <3> QED
      BY <2>3, <3>2 DEF Unrolls
  <2> QED
    BY <2>3, <2>4 DEF Unrolls
<1>5. FilterRun(lists) = CHOOSE g : IsIt(g)
  BY DEF FilterRun
<1>6. IsIt(FilterRun(lists))
  <2> HIDE DEF IsIt
  <2> QED
    BY <1>4, <1>5
<1>7. FilterRun(lists)[0] = <<>>
  BY <1>1, <1>6
<1>8. ASSUME NEW i \in 1..n PROVE FilterRun(lists)[i] = lists[i] \o FilterRun(lists)[i - 1]
  <2>1. i \in 0..n /\ i # 0
    BY <1>1
  <2> HIDE DEF n
  <2> QED
    BY <1>6, <2>1
<1>9. \A i \in 0..n : FilterRun(lists)[i] \in FilterLists
  <2>1. \A i \in 1..n : FilterRun(lists)[i - 1] \in FilterLists => FilterRun(lists)[i] \in FilterLists
    BY <1>1, <1>2, <1>8
  <2> HIDE DEF n
  <2> QED
    BY <1>1, <1>3, <1>7, <2>1, RunStays
<1>10. LastFirst(lists) = FilterRun(lists)[n]
  BY DEF LastFirst, Loop, FilterRun
<1> QED
  BY <1>7, <1>8, <1>9, <1>10

\* Lists that begin alike.
LEMMA FilterRunAgrees ==
  ASSUME NEW s \in Seq(FilterLists), NEW t \in Seq(FilterLists),
         NEW n \in Nat, n <= Len(s), n <= Len(t), \A i \in 1..n : s[i] = t[i]
  PROVE  FilterRun(s)[n] = FilterRun(t)[n]
<1> DEFINE T == {i \in 0..n : FilterRun(s)[i] = FilterRun(t)[i]}
<1>0. Len(s) \in Nat /\ Len(t) \in Nat
  BY LenProperties
<1>1. 0 \in T
  <2>1. FilterRun(s)[0] = <<>> /\ FilterRun(t)[0] = <<>>
    BY FilterRunUnfolds
  <2> QED
    BY <2>1
<1>2. ASSUME NEW k \in 1..n, k - 1 \in T PROVE k \in T
  <2>1. k \in 1..Len(s) /\ k \in 1..Len(t) /\ k \in 0..n /\ s[k] = t[k]
    BY <1>0
  <2>2. FilterRun(s)[k - 1] = FilterRun(t)[k - 1]
    BY <1>2
  <2>3. FilterRun(s)[k] = FilterRun(t)[k]
    BY <2>1, <2>2, FilterRunUnfolds
  <2> QED
    BY <2>1, <2>3
<1>3. \A k \in 0..n : k \in T
  <2> HIDE DEF T
  <2> QED
    BY <1>1, <1>2, Climbs
<1> QED
  BY <1>3

\* A list that comes last is put first.
LEMMA LastFirstAppend ==
  ASSUME NEW lists \in Seq(FilterLists), NEW fs \in FilterLists
  PROVE  /\ LastFirst(lists) \in FilterLists
         /\ LastFirst(Append(lists, fs)) = fs \o LastFirst(lists)
<1> DEFINE n    == Len(lists)
           more == Append(lists, fs)
<1>1. n \in Nat
  BY LenProperties
<1>2. /\ more \in Seq(FilterLists) /\ Len(more) = n + 1 /\ more[n + 1] = fs
      /\ \A i \in 1..n : more[i] = lists[i]
  BY AppendProperties
<1> HIDE DEF more
<1>3. LastFirst(lists) = FilterRun(lists)[n] /\ FilterRun(lists)[n] \in FilterLists
  <2>1. n \in 0..n
    BY <1>1
  <2> QED
    BY <2>1, FilterRunUnfolds
<1>4. LastFirst(more) = more[n + 1] \o FilterRun(more)[n]
  <2>1. n + 1 \in 1..Len(more) /\ (n + 1) - 1 = n
    BY <1>1, <1>2
  <2>2. FilterRun(more)[n + 1] = more[n + 1] \o FilterRun(more)[(n + 1) - 1]
    BY <1>2, <2>1, FilterRunUnfolds
  <2> QED
    BY <1>2, <2>1, <2>2, FilterRunUnfolds
<1>5. FilterRun(more)[n] = FilterRun(lists)[n]
  <2>1. n <= Len(more) /\ n <= Len(lists)
    BY <1>1, <1>2
  <2> QED
    BY <1>1, <1>2, <2>1, FilterRunAgrees
<1> QED
  BY <1>2, <1>3, <1>4, <1>5 DEF more

\* Lists of filters are joined in any order.
LEMMA FiltersAssociate ==
  ASSUME NEW a \in FilterLists, NEW b \in FilterLists, NEW c \in FilterLists
  PROVE  (a \o b) \o c = a \o (b \o c)
BY ConcatAssociative DEF FilterLists

\* No lists, no filters.
LEMMA LastFirstEmpty == LastFirst(<<>>) = <<>>
<1>1. <<>> \in Seq(FilterLists) /\ Len(<<>>) = 0
  BY EmptySeq
<1> QED
  BY <1>1, FilterRunUnfolds

\* The same of a list that is given by a function.
LEMMA LastFirstGrows ==
  ASSUME NEW n \in Nat, NEW s \in [1..(n + 1) -> FilterLists], NEW t,
         t = [i \in 1..n |-> s[i]]
  PROVE  LastFirst(t) \in FilterLists /\ LastFirst(s) = s[n + 1] \o LastFirst(t)
<1>1. t \in Seq(FilterLists) /\ Len(t) = n
  <2>1. t \in [1..n -> FilterLists]
    OBVIOUS
  <2> QED
    BY <2>1, OnNumbers
<1>2. s \in Seq(FilterLists) /\ Len(s) = n + 1 /\ s[n + 1] \in FilterLists
  <2>1. n + 1 \in Nat
    OBVIOUS
  <2> QED
    BY <2>1, OnNumbers
<1>3. s = Append(t, s[n + 1])
  <2> DEFINE u == Append(t, s[n + 1])
  <2>1. /\ u \in Seq(FilterLists) /\ Len(u) = n + 1 /\ u[n + 1] = s[n + 1]
        /\ \A i \in 1..n : u[i] = t[i]
    BY <1>1, <1>2, AppendProperties
  <2> HIDE DEF u
  <2>2. \A i \in 1..Len(u) : u[i] = s[i]
    BY <2>1
  <2>3. u = s
    BY <1>2, <2>1, <2>2, SeqEqual
  <2> QED
    BY <2>3 DEF u
<1> QED
  BY <1>1, <1>2, <1>3, LastFirstAppend

-----------------------------------------------------------------------------
(* One CPPLINT.cfg.                                                        *)
Searches == [keep_looking : BOOLEAN, excluded : BOOLEAN, filters : Seq(FilterLists),
             settings : Settings]

\* Every line of the file leaves a search.
LEMMA TakeOptionType ==
  ASSUME NEW acc \in Searches, NEW o \in ConfigLines, NEW base
  PROVE  TakeOption(acc, o, base) \in Searches
<1>1. /\ acc.keep_looking \in BOOLEAN /\ acc.excluded \in BOOLEAN
      /\ acc.filters \in Seq(FilterLists) /\ acc.settings \in Settings
      /\ o.name \in OptionNames /\ o.filters \in FilterLists /\ o.length \in Nat
      /\ o.names \in SUBSET STRING
  BY DEF Searches, ConfigLines
<1>2. CASE acc.excluded
  BY <1>2 DEF TakeOption
<1>3. CASE ~acc.excluded /\ o.name = "noparent"
  BY <1>1, <1>3 DEF TakeOption, Searches
<1>4. CASE ~acc.excluded /\ o.name = "filter"
  <2>1. Append(acc.filters, o.filters) \in Seq(FilterLists)
    BY <1>1, AppendProperties
  <2>2. TakeOption(acc, o, base) = [acc EXCEPT !.filters = Append(@, o.filters)]
    BY <1>4 DEF TakeOption
  <2> QED
    BY <2>1, <2>2 DEF Searches
<1>5. CASE ~acc.excluded /\ o.name = "exclude_files"
  <2> DEFINE hit == base \in o.names
  <2>1. TakeOption(acc, o, base) = [acc EXCEPT !.excluded = hit]
    BY <1>5 DEF TakeOption
  <2>2. hit \in BOOLEAN
    OBVIOUS
  <2> HIDE DEF hit
  <2> QED
    BY <1>1, <2>1, <2>2 DEF Searches
<1>6. CASE ~acc.excluded /\ o.name = "linelength"
  BY <1>1, <1>6 DEF TakeOption, Searches, Settings
<1>7. CASE ~acc.excluded /\ o.name = "extensions"
  BY <1>1, <1>7 DEF TakeOption, Searches, Settings
<1>8. CASE ~acc.excluded /\ o.name = "headers"
  BY <1>1, <1>8 DEF TakeOption, Searches, Settings
<1> QED
  BY <1>1, <1>2, <1>3, <1>4, <1>5, <1>6, <1>7, <1>8 DEF OptionNames

\* What the loop over the lines of the file holds.
OptionRun(options, base, acc) ==
  CHOOSE h : h = [k \in 0..Len(options) |->
                    IF k = 0 THEN acc ELSE TakeOption(h[k - 1], options[k], base)]

\* It exists, and holds searches.
LEMMA OptionRunUnfolds ==
  ASSUME NEW options \in Seq(ConfigLines), NEW base, NEW acc \in Searches
  PROVE  LET run == OptionRun(options, base, acc)
         IN  /\ run[0] = acc
             /\ \A i \in 1..Len(options) : run[i] = TakeOption(run[i - 1], options[i], base)
             /\ \A i \in 0..Len(options) : run[i] \in Searches
<1> DEFINE n       == Len(options)
           run     == OptionRun(options, base, acc)
           IsIt(h) == h = [k \in 0..n |->
                             IF k = 0 THEN acc ELSE TakeOption(h[k - 1], options[k], base)]
<1>1. n \in Nat /\ \A i \in 1..n : options[i] \in ConfigLines
  BY LenProperties, ElementOfSeq
<1>2. PICK h : IsIt(h)
  <2> DEFINE take == [k \in 1..n |-> [v \in Searches |-> TakeOption(v, options[k], base)]]
  <2>1. \A k \in 1..n : \A v \in Searches : take[k][v] = TakeOption(v, options[k], base)
    OBVIOUS
  <2>2. \A k \in 1..n : \A v \in Searches : take[k][v] \in Searches
    BY <1>1, <2>1, TakeOptionType
  <2> HIDE DEF take, n
  <2>3. PICK h : Unrolls(n, Searches, acc, take, h)
    BY <1>1, <2>2, RecursionExists
  <2>4. \A k \in 1..n : k - 1 \in 0..n /\ h[k - 1] \in Searches
    BY <1>1, <2>3 DEF Unrolls
  <2>5. \A k \in 0..n : h[k] = IF k = 0 THEN acc ELSE TakeOption(h[k - 1], options[k], base)
    BY <1>1, <2>1, <2>3, <2>4 DEF Unrolls
  <2> QED
    BY <2>3, <2>5 DEF Unrolls
<1>3. run = CHOOSE g : IsIt(g)
  BY DEF OptionRun
<1>4. IsIt(run)
  <2> HIDE DEF IsIt, run
  <2> QED
    BY <1>2, <1>3
<1> HIDE DEF run
<1>6. run[0] = acc
  BY <1>1, <1>4
<1>7. ASSUME NEW i \in 1..n PROVE run[i] = TakeOption(run[i - 1], options[i], base)
  <2>1. i \in 0..n /\ i # 0
    BY <1>1
  <2> HIDE DEF n
  <2> QED
    BY <1>4, <2>1
<1>8. \A i \in 0..n : run[i] \in Searches
  <2>1. \A i \in 1..n : run[i - 1] \in Searches => run[i] \in Searches
    BY <1>1, <1>7, TakeOptionType
  <2> HIDE DEF n
  <2> QED
    BY <1>1, <1>6, <2>1, RunStays
<1> QED
  BY <1>6, <1>7, <1>8 DEF run

FilterOfLine(o) == IF o.name = "filter" THEN o.filters ELSE <<>>

\* Of the lines of one file that was not left, the filters are put before those
\* found so far, and one of them can end the search.
LEMMA OptionsAreRead ==
  ASSUME NEW options \in Seq(ConfigLines), NEW base, NEW acc \in Searches,
         ~acc.excluded,
         ~OptionRun(options, base, acc)[Len(options)].excluded
  PROVE  LET r == OptionRun(options, base, acc)[Len(options)]
         IN  /\ r.keep_looking <=> acc.keep_looking
                                   /\ ~\E i \in DOMAIN options : options[i].name = "noparent"
             /\ LastFirst(r.filters)
                  = LastFirst([i \in DOMAIN options |-> FilterOfLine(options[i])])
                      \o LastFirst(acc.filters)
<1> DEFINE n     == Len(options)
           run   == OptionRun(options, base, acc)
           of(k) == [i \in 1..k |-> FilterOfLine(options[i])]
           Right(k) ==
             ~run[k].excluded =>
               /\ run[k].keep_looking
                    <=> acc.keep_looking /\ ~\E i \in 1..k : options[i].name = "noparent"
               /\ LastFirst(run[k].filters) = LastFirst(of(k)) \o LastFirst(acc.filters)
           T == {k \in 0..n : Right(k)}
<1>1. n \in Nat /\ DOMAIN options = 1..n /\ \A i \in 1..n : options[i] \in ConfigLines
  BY LenProperties, ElementOfSeq
<1>2. /\ run[0] = acc
      /\ \A i \in 1..n : run[i] = TakeOption(run[i - 1], options[i], base)
      /\ \A i \in 0..n : run[i] \in Searches
  BY OptionRunUnfolds
<1> HIDE DEF run, n
<1>3. LastFirst(acc.filters) \in FilterLists
  <2>1. acc.filters \in Seq(FilterLists) /\ <<>> \in FilterLists
    BY EmptySeq DEF Searches, FilterLists
  <2> QED
    BY <2>1, LastFirstAppend
<1>4. Right(0)
  <2>1. of(0) = <<>>
    OBVIOUS
  <2>2. LastFirst(of(0)) \o LastFirst(acc.filters) = LastFirst(acc.filters)
    BY <1>3, <2>1, LastFirstEmpty, ConcatEmptySeq DEF FilterLists
  <2> QED
    BY <1>2, <2>2
<1>5. ASSUME NEW k \in 1..n, Right(k - 1) PROVE Right(k)
  <2> DEFINE o == options[k]
  <2>0. k - 1 \in Nat /\ k - 1 \in 0..n /\ (k - 1) + 1 = k /\ o \in ConfigLines
    BY <1>1
  <2>1. run[k] = TakeOption(run[k - 1], o, base) /\ run[k - 1] \in Searches
    BY <1>2, <2>0
  <2>2. LastFirst(of(k - 1)) \in FilterLists /\ LastFirst(of(k)) = FilterOfLine(o) \o LastFirst(of(k - 1))
    <3>1. of(k) \in [1..((k - 1) + 1) -> FilterLists]
      <4>1. \A i \in 1..k : FilterOfLine(options[i]) \in FilterLists
        <5>1. \A i \in 1..k : options[i].filters \in FilterLists
          BY <1>1 DEF ConfigLines
        <5> QED
          BY <5>1, EmptySeq DEF FilterOfLine, FilterLists
      <4>2. of(k) \in [1..k -> FilterLists]
        BY <4>1
      <4> HIDE DEF of
      <4> QED
        BY <2>0, <4>2
    <3>2. of(k - 1) = [i \in 1..(k - 1) |-> of(k)[i]] /\ of(k)[k] = FilterOfLine(o)
      BY <2>0
    <3> HIDE DEF of, o
    <3>3. /\ LastFirst(of(k - 1)) \in FilterLists
          /\ LastFirst(of(k)) = of(k)[(k - 1) + 1] \o LastFirst(of(k - 1))
      BY <2>0, <3>1, <3>2, LastFirstGrows
    <3> QED
      BY <2>0, <3>2, <3>3
  <2>3. SUFFICES ASSUME ~run[k].excluded
                 PROVE  /\ run[k].keep_looking
                             <=> acc.keep_looking /\ ~\E i \in 1..k : options[i].name = "noparent"
                        /\ LastFirst(run[k].filters) = LastFirst(of(k)) \o LastFirst(acc.filters)
    OBVIOUS
  <2>4. ~run[k - 1].excluded
    BY <2>1, <2>3 DEF TakeOption
  <2>5. /\ run[k - 1].keep_looking
             <=> acc.keep_looking /\ ~\E i \in 1..(k - 1) : options[i].name = "noparent"
        /\ LastFirst(run[k - 1].filters) = LastFirst(of(k - 1)) \o LastFirst(acc.filters)
    BY <1>5, <2>4
  <2>6. (\E i \in 1..k : options[i].name = "noparent")
          <=> (\E i \in 1..(k - 1) : options[i].name = "noparent") \/ o.name = "noparent"
    BY <2>0
  <2> HIDE DEF of, o
  <2>7. CASE o.name = "filter"
    <3>1. run[k] = [run[k - 1] EXCEPT !.filters = Append(@, o.filters)]
      BY <2>1, <2>4, <2>7 DEF TakeOption
    <3>2. /\ run[k].keep_looking = run[k - 1].keep_looking
          /\ run[k].filters = Append(run[k - 1].filters, o.filters)
      BY <2>1, <3>1 DEF Searches
    <3>3. run[k - 1].filters \in Seq(FilterLists) /\ o.filters \in FilterLists
      BY <2>0, <2>1 DEF Searches, ConfigLines
    <3>4. LastFirst(run[k].filters) = o.filters \o LastFirst(run[k - 1].filters)
      BY <3>2, <3>3, LastFirstAppend
    <3>5. (o.filters \o LastFirst(of(k - 1))) \o LastFirst(acc.filters)
            = o.filters \o (LastFirst(of(k - 1)) \o LastFirst(acc.filters))
      BY <1>3, <2>2, <3>3, FiltersAssociate
    <3>6. FilterOfLine(o) = o.filters
      BY <2>7 DEF FilterOfLine
    <3>7. LastFirst(run[k].filters) = LastFirst(of(k)) \o LastFirst(acc.filters)
      BY <2>2, <2>5, <3>4, <3>5, <3>6, Zenon
    <3> QED
      BY <2>5, <2>6, <2>7, <3>2, <3>7
  <2>8. CASE o.name # "filter"
    <3>1. /\ run[k].filters = run[k - 1].filters
          /\ run[k].keep_looking = IF o.name = "noparent" THEN FALSE ELSE run[k - 1].keep_looking
      <4>1. o.name \in OptionNames
        BY <2>0 DEF ConfigLines
      <4> QED
        BY <2>1, <2>4, <2>8, <4>1 DEF TakeOption, Searches, OptionNames
    <3>2. LastFirst(of(k)) = LastFirst(of(k - 1))
      BY <2>2, <2>8, ConcatEmptySeq DEF FilterOfLine, FilterLists
    <3> QED
      BY <2>5, <2>6, <3>1, <3>2
  <2> QED
    BY <2>7, <2>8
<1>6. Right(n)
  <2>1. \A k \in 0..n : k \in T
    <3> HIDE DEF Right
    <3>1. 0 \in T
      BY <1>1, <1>4
    <3>2. \A k \in 1..n : k - 1 \in T => k \in T
      BY <1>1, <1>5
    <3> HIDE DEF T
    <3> QED
      BY <1>1, <3>1, <3>2, Climbs
  <2> QED
    BY <1>1, <2>1
<1>7. of(n) = [i \in DOMAIN options |-> FilterOfLine(options[i])]
  BY <1>1
<1> QED
  BY <1>1, <1>6, <1>7 DEF run, n

\* The options of a directory and the filters they hold.
LEMMA OptionTypes ==
  ASSUME WellTyped(job), NEW path, NEW k
  PROVE  OptionsAt(path, k) \in Seq(ConfigLines) /\ FiltersAt(path, k) \in FilterLists
<1> DEFINE o  == OptionsAt(path, k)
           fs == [i \in DOMAIN o |-> FilterOfLine(o[i])]
<1>1. o \in Seq(ConfigLines)
  <2>1. CASE Configured(path, k) /\ job.configs[DirAt(path, k)].readable
    <3>1. job.configs[DirAt(path, k)] \in ConfigFiles
      BY <2>1 DEF WellTyped, Configured
    <3> QED
      BY <2>1, <3>1 DEF OptionsAt, ConfigFiles
  <2>2. CASE ~(Configured(path, k) /\ job.configs[DirAt(path, k)].readable)
    BY <2>2, EmptySeq DEF OptionsAt
  <2> QED
    BY <2>1, <2>2
<1> HIDE DEF o
<1>2. Len(o) \in Nat /\ DOMAIN o = 1..Len(o) /\ \A i \in 1..Len(o) : o[i] \in ConfigLines
  BY <1>1, LenProperties, ElementOfSeq
<1>3. fs \in [1..Len(o) -> FilterLists]
  <2>1. \A i \in 1..Len(o) : FilterOfLine(o[i]) \in FilterLists
    <3>1. \A i \in 1..Len(o) : o[i].filters \in FilterLists
      BY <1>2 DEF ConfigLines
    <3> QED
      BY <3>1, EmptySeq DEF FilterOfLine, FilterLists
  <2> QED
    BY <1>2, <2>1
<1> HIDE DEF fs
<1>4. fs \in Seq(FilterLists) /\ <<>> \in FilterLists
  <2>1. fs \in Seq(FilterLists)
    BY <1>2, <1>3, OnNumbers
  <2> QED
    BY <2>1, EmptySeq DEF FilterLists
<1>5. LastFirst(fs) \in FilterLists
  BY <1>4, LastFirstAppend
<1>6. FiltersAt(path, k) = LastFirst(fs)
  BY DEF FiltersAt, fs, o, FilterOfLine
<1> QED
  BY <1>1, <1>5, <1>6 DEF o

\* The filters from one directory on are its own and then those from the next on.
LEMMA FiltersFromNext ==
  ASSUME WellTyped(job), NEW path \in Paths, NEW k \in 0..Len(path.dir)
  PROVE  /\ FiltersFrom(path, k + 1) \in FilterLists
         /\ FiltersFrom(path, k) = FiltersAt(path, k) \o FiltersFrom(path, k + 1)
<1> DEFINE n  == Len(path.dir) - k
           s  == [j \in 1..(n + 1) |-> FiltersAt(path, Len(path.dir) + 1 - j)]
           t  == [j \in 1..n |-> FiltersAt(path, Len(path.dir) + 1 - j)]
<1>1. Len(path.dir) \in Nat
  BY LenProperties DEF Paths
<1>2. /\ n \in Nat /\ Len(path.dir) + 1 - k = n + 1 /\ Len(path.dir) + 1 - (k + 1) = n
      /\ Len(path.dir) + 1 - (n + 1) = k
  <2> DEFINE m == Len(path.dir)
  <2>1. m \in Nat /\ k \in 0..m
    BY <1>1
  <2> HIDE DEF m
  <2>2. m - k \in Nat /\ m + 1 - k = (m - k) + 1 /\ m + 1 - (k + 1) = m - k /\ m + 1 - ((m - k) + 1) = k
    BY <2>1
  <2> QED
    BY <2>2 DEF m
<1>3. FiltersFrom(path, k) = LastFirst(s) /\ FiltersFrom(path, k + 1) = LastFirst(t)
  BY <1>2 DEF FiltersFrom
<1>4. s \in [1..(n + 1) -> FilterLists]
  <2>1. \A j \in 1..(n + 1) : FiltersAt(path, Len(path.dir) + 1 - j) \in FilterLists
    BY OptionTypes
  <2> QED
    BY <2>1
<1>5. t = [i \in 1..n |-> s[i]] /\ s[n + 1] = FiltersAt(path, k)
  BY <1>2
<1> HIDE DEF s, t, n
<1>6. LastFirst(t) \in FilterLists /\ LastFirst(s) = s[n + 1] \o LastFirst(t)
  BY <1>2, <1>4, <1>5, LastFirstGrows
<1> QED
  BY <1>3, <1>5, <1>6

\* Behind the directory of the file there are none.
LEMMA FiltersFromEnd ==
  ASSUME NEW path \in Paths
  PROVE  FiltersFrom(path, Len(path.dir) + 1) = <<>>
<1>1. Len(path.dir) \in Nat
  BY LenProperties DEF Paths
<1>2. Len(path.dir) + 1 - (Len(path.dir) + 1) = 0
  BY <1>1
<1> DEFINE s == [j \in 1..0 |-> FiltersAt(path, Len(path.dir) + 1 - j)]
<1>3. FiltersFrom(path, Len(path.dir) + 1) = LastFirst(s)
  BY <1>2 DEF FiltersFrom
<1>4. s = <<>>
  OBVIOUS
<1> QED
  BY <1>3, <1>4, LastFirstEmpty

\* What the configuration of a directory adds to the search.
LEMMA ConfigIsRead ==
  ASSUME WellTyped(job), NEW path \in Paths, NEW k \in 0..Len(path.dir), NEW base,
         settings \in Settings, cfg_filters \in Seq(FilterLists)
  PROVE  LET r == ReadConfig(DirAt(path, k), base)
         IN  /\ r \in Searches
             /\ ~r.excluded =>
                  /\ r.keep_looking <=> ~EndsSearch(path, k)
                  /\ LastFirst(r.filters) = FiltersAt(path, k) \o LastFirst(cfg_filters)
<1> DEFINE dir == DirAt(path, k)
           acc == [Looking EXCEPT !.filters = cfg_filters, !.settings = settings]
           r   == ReadConfig(dir, base)
           o   == OptionsAt(path, k)
<1>1. /\ acc \in Searches /\ acc.keep_looking /\ ~acc.excluded /\ acc.filters = cfg_filters
  BY DEF Looking, Searches
<1>2. LastFirst(cfg_filters) \in FilterLists
  <2>1. <<>> \in FilterLists
    BY EmptySeq DEF FilterLists
  <2> QED
    BY <2>1, LastFirstAppend
<1>3. ASSUME o = <<>> PROVE FiltersAt(path, k) \o LastFirst(cfg_filters) = LastFirst(cfg_filters)
  <2>1. FiltersAt(path, k) = LastFirst(<<>>)
    <3>1. [i \in DOMAIN o |-> FilterOfLine(o[i])] = <<>>
      BY <1>3
    <3> QED
      BY <3>1 DEF FiltersAt, FilterOfLine
  <2> QED
    BY <1>2, <2>1, LastFirstEmpty, ConcatEmptySeq DEF FilterLists
<1>4. CASE dir \notin DOMAIN job.configs
  <2>1. r = acc
    BY <1>4 DEF ReadConfig
  <2>2. o = <<>> /\ ~EndsSearch(path, k)
    BY <1>4 DEF OptionsAt, EndsSearch, Configured
  <2> HIDE DEF acc, r, o
  <2> QED
    BY <1>1, <1>3, <2>1, <2>2 DEF r
<1>5. CASE dir \in DOMAIN job.configs /\ ~job.configs[dir].readable
  <2>1. r = [acc EXCEPT !.keep_looking = FALSE]
    BY <1>5 DEF ReadConfig
  <2>2. o = <<>> /\ EndsSearch(path, k)
    BY <1>5 DEF OptionsAt, EndsSearch, Configured
  <2> HIDE DEF acc, o
  <2>3. r \in Searches /\ r.filters = cfg_filters /\ ~r.keep_looking
    BY <1>1, <2>1 DEF Searches
  <2> QED
    BY <1>3, <2>2, <2>3
<1>6. CASE dir \in DOMAIN job.configs /\ job.configs[dir].readable
  <2>1. o \in Seq(ConfigLines) /\ o = job.configs[dir].options
    BY <1>6, OptionTypes DEF OptionsAt, Configured
  <2>2. r = OptionRun(o, base, acc)[Len(o)]
    BY <1>6, <2>1 DEF ReadConfig, Loop, OptionRun
  <2>3. r \in Searches
    <3>1. Len(o) \in 0..Len(o)
      BY <2>1, LenProperties
    <3> HIDE DEF acc, o
    <3> QED
      BY <1>1, <2>1, <2>2, <3>1, OptionRunUnfolds
  <2>4. EndsSearch(path, k) <=> \E i \in DOMAIN o : o[i].name = "noparent"
    BY <1>6 DEF EndsSearch, Configured
  <2>5. FiltersAt(path, k) = LastFirst([i \in DOMAIN o |-> FilterOfLine(o[i])])
    BY DEF FiltersAt, FilterOfLine
  <2> HIDE DEF acc, o, r
  <2>6. ~r.excluded =>
          /\ r.keep_looking <=> acc.keep_looking /\ ~\E i \in DOMAIN o : o[i].name = "noparent"
          /\ LastFirst(r.filters)
               = LastFirst([i \in DOMAIN o |-> FilterOfLine(o[i])]) \o LastFirst(acc.filters)
    BY <1>1, <2>1, <2>2, OptionsAreRead
  <2> QED
    BY <1>1, <2>3, <2>4, <2>5, <2>6 DEF r
<1> QED
  BY <1>4, <1>5, <1>6

-----------------------------------------------------------------------------
(* The search.                                                             *)
\* Where the search ends: no directory further down ends it.
LEMMA OutermostEnds ==
  ASSUME NEW path \in Paths
  PROVE  /\ Outermost(path) \in 0..Len(path.dir)
         /\ Outermost(path) # 0 => EndsSearch(path, Outermost(path))
         /\ \A k \in 0..Len(path.dir) : EndsSearch(path, k) => k <= Outermost(path)
<1> DEFINE n == Len(path.dir)
           E == {0} \cup {k \in 0..n : EndsSearch(path, k)}
<1>1. n \in Nat
  BY LenProperties DEF Paths
<1>2. E \in SUBSET (0..n) /\ 0 \in E
  BY <1>1
<1>3. Outermost(path) = Max(E)
  BY DEF Outermost
<1>4. \A k \in E : k # 0 => EndsSearch(path, k)
  OBVIOUS
<1>5. \A k \in 0..n : EndsSearch(path, k) => k \in E
  OBVIOUS
<1> HIDE DEF E, n
<1>6. Max(E) \in E /\ \A k \in E : Max(E) >= k
  <2> DEFINE Down == {n - k : k \in E}
  <2>1. Down \in SUBSET Nat /\ Down # {}
    BY <1>1, <1>2
  <2>2. PICK m \in Down : \A j \in Down : m <= j
    <3> HIDE DEF Down
    <3> QED
      BY <2>1, LeastNatural
  <2>3. PICK x \in E : m = n - x
    OBVIOUS
  <2>4. \A k \in E : x >= k
    BY <1>1, <1>2, <2>2, <2>3
  <2> QED
    BY <2>4 DEF Max
<1> QED
  BY <1>1, <1>2, <1>3, <1>4, <1>5, <1>6 DEF n

\* What the properties say of the file at the head of todo stays as it is while the
\* job and todo do.
LEMMA FileStays ==
  ASSUME job' = job, todo' = todo
  PROVE  /\ FiltersAbove(Head(todo))' = FiltersAbove(Head(todo))
         /\ Outermost(Head(todo))' = Outermost(Head(todo))
         /\ \A k : FiltersFrom(Head(todo), k)' = FiltersFrom(Head(todo), k)
         /\ \A k : DirAt(Head(todo), k)' = DirAt(Head(todo), k)
         /\ GivenFilters' = GivenFilters
BY DEF FiltersAbove, FiltersFrom, FiltersAt, Outermost, EndsSearch, OptionsAt, Configured, DirAt,
       GivenFilters

\* What the program and the command line give stays while the job does.
LEMMA GivenStay ==
  ASSUME job' = job
  PROVE  GivenFilters' = GivenFilters
BY DEF GivenFilters

\* The path of the file at the head of todo.
LEMMA HeadIsPath ==
  ASSUME todo \in Seq(Paths), todo # <<>>
  PROVE  Head(todo) \in Paths /\ Tail(todo) \in Seq(Paths)
BY HeadTailProperties

\* A step that leaves the job and todo as they are takes the search to a directory.
LEMMA SearchComesTo ==
  ASSUME job' = job, todo' = todo, NEW k \in Outermost(Head(todo))..Len(Head(todo).dir),
         at'.dir = DirAt(Head(todo), k), LastFirst(cfg_filters') = FiltersFrom(Head(todo), k + 1)
  PROVE  (\E i \in Outermost(Head(todo))..Len(Head(todo).dir) : SearchIsAt(i))'
<1>1. SearchIsAt(k)'
  BY FileStays DEF SearchIsAt
<1>2. (k \in Outermost(Head(todo))..Len(Head(todo).dir))'
  BY FileStays
<1> QED
  BY <1>1, <1>2

\* The search starts in the directory of the file, with no filters.
LEMMA BackupStep ==
  ASSUME Inv, BackupFilters
  PROVE  ConfigInv'
<1> DEFINE path == Head(todo)
           n    == Len(path.dir)
<1>1. path \in Paths /\ n \in Nat /\ path.dir \in Seq(STRING)
  BY HeadIsPath, LenProperties DEF Inv, ConfigInv, BackupFilters, Paths
<1>2. filters = GivenFilters /\ GivenFilters' = GivenFilters
  BY GivenStay DEF Inv, ConfigInv, BackupFilters
<1>3. DirAt(path, n) = path.dir
  BY <1>1, SubSeqFull DEF DirAt
<1>4. /\ Outermost(path) \in 0..n
      /\ FiltersFrom(path, n + 1) = <<>>
      /\ LastFirst(<<>>) = <<>>
  BY <1>1, OutermostEnds, FiltersFromEnd, LastFirstEmpty
<1>5. n \in Outermost(path)..n
  BY <1>1, <1>4
<1>6. at' = path /\ cfg_filters' = <<>> /\ pc' = "config" /\ filters_backup' = filters
      /\ UNCHANGED <<job, settings, filters, todo>> /\ todo # <<>>
  BY DEF BackupFilters
<1>7. (\E i \in Outermost(Head(todo))..Len(Head(todo).dir) : SearchIsAt(i))'
  BY <1>3, <1>4, <1>5, <1>6, SearchComesTo
<1>8. <<>> \in Seq(FilterLists) /\ settings \in Settings /\ todo \in Seq(Paths)
  BY EmptySeq DEF Inv, ConfigInv
<1> QED
  BY <1>2, <1>6, <1>7, <1>8 DEF ConfigInv, OneFile

\* The directory above.
LEMMA FrontOfDir ==
  ASSUME NEW path \in Paths, NEW k \in 1..Len(path.dir)
  PROVE  Front(DirAt(path, k)) = DirAt(path, k - 1)
<1> DEFINE n == Len(path.dir)
           d == DirAt(path, k)
           e == DirAt(path, k - 1)
<1>1. n \in Nat /\ DOMAIN path.dir = 1..n /\ \A i \in 1..n : path.dir[i] \in STRING
  BY LenProperties, ElementOfSeq DEF Paths
<1> HIDE DEF n
<1>2. k \in Int /\ 1 \in Int /\ k - 1 \in Int /\ k \in 1..n
  BY <1>1 DEF n
<1>3. d \in Seq(STRING) /\ Len(d) = k /\ \A i \in 1..k : d[i] = path.dir[i]
  <2>1. \A i \in 1..k : path.dir[i] \in STRING
    BY <1>1, <1>2
  <2> QED
    BY <1>2, <2>1, SubSeqProperties DEF DirAt
<1>4. e \in Seq(STRING) /\ Len(e) = k - 1 /\ \A i \in 1..(k - 1) : e[i] = path.dir[i]
  <2>1. \A i \in 1..(k - 1) : path.dir[i] \in STRING
    BY <1>1, <1>2
  <2>2. /\ SubSeq(path.dir, 1, k - 1) \in Seq(STRING)
        /\ Len(SubSeq(path.dir, 1, k - 1)) = IF 1 <= k - 1 THEN (k - 1) - 1 + 1 ELSE 0
        /\ \A i \in 1..((k - 1) - 1 + 1) : SubSeq(path.dir, 1, k - 1)[i] = path.dir[1 + i - 1]
    BY <1>2, <2>1, SubSeqProperties
  <2> QED
    BY <1>2, <2>2 DEF DirAt
<1> HIDE DEF d, e
<1> DEFINE f == SubSeq(d, 1, k - 1)
<1>5. f \in Seq(STRING) /\ Len(f) = k - 1 /\ \A i \in 1..(k - 1) : f[i] = d[i]
  <2>1. \A i \in 1..(k - 1) : d[i] \in STRING
    BY <1>1, <1>2, <1>3
  <2>2. /\ SubSeq(d, 1, k - 1) \in Seq(STRING)
        /\ Len(SubSeq(d, 1, k - 1)) = IF 1 <= k - 1 THEN (k - 1) - 1 + 1 ELSE 0
        /\ \A i \in 1..((k - 1) - 1 + 1) : SubSeq(d, 1, k - 1)[i] = d[1 + i - 1]
    BY <1>2, <2>1, SubSeqProperties
  <2> QED
    BY <1>2, <2>2
<1>6. f = e
  <2> HIDE DEF f
  <2>1. \A i \in 1..Len(f) : f[i] = e[i]
    BY <1>2, <1>3, <1>4, <1>5
  <2> QED
    BY <1>4, <1>5, <2>1, SeqEqual
<1>7. Front(d) = f
  BY <1>3 DEF Front
<1> QED
  BY <1>6, <1>7 DEF d, e

\* The search goes one directory up, or ends where it is to end.
LEMMA OverridesStep ==
  ASSUME Inv, ProcessConfigOverrides
  PROVE  ConfigInv'
<1> DEFINE path == Head(todo)
           n    == Len(path.dir)
           r    == ReadConfig(at.dir, at.base)
<1>1. todo \in Seq(Paths) /\ todo # <<>> /\ settings \in Settings /\ cfg_filters \in Seq(FilterLists)
  BY DEF Inv, ConfigInv, ProcessConfigOverrides, OneFile
<1>2. path \in Paths /\ n \in Nat /\ path.dir \in Seq(STRING)
  BY <1>1, HeadIsPath, LenProperties DEF Paths
<1>3. PICK k \in Outermost(path)..n : SearchIsAt(k)
  BY DEF Inv, ConfigInv, ProcessConfigOverrides
<1>4. /\ Outermost(path) \in 0..n
      /\ Outermost(path) # 0 => EndsSearch(path, Outermost(path))
      /\ \A j \in 0..n : EndsSearch(path, j) => j <= Outermost(path)
  BY <1>2, OutermostEnds
<1>5. k \in 0..n /\ Outermost(path) <= k
  BY <1>2, <1>3, <1>4
<1>6. /\ at.dir = DirAt(path, k)
      /\ LastFirst(cfg_filters) = FiltersFrom(path, k + 1)
  BY <1>3 DEF SearchIsAt
<1>7. /\ UNCHANGED <<job, filters, filters_backup, todo>>
      /\ settings' = r.settings /\ cfg_filters' = r.filters
      /\ IF r.excluded THEN pc' = "restore" /\ UNCHANGED at
         ELSE IF r.keep_looking /\ at.dir # <<>>
           THEN at' = [dir |-> Front(at.dir), base |-> Last(at.dir)] /\ UNCHANGED pc
         ELSE pc' = "filters" /\ UNCHANGED at
  BY DEF ProcessConfigOverrides
<1>8. /\ r \in Searches
      /\ ~r.excluded => /\ r.keep_looking <=> ~EndsSearch(path, k)
                        /\ LastFirst(r.filters) = FiltersAt(path, k) \o LastFirst(cfg_filters)
  <2>1. WellTyped(job)
    BY DEF Inv
  <2> HIDE DEF path
  <2> QED
    BY <1>1, <1>2, <1>5, <1>6, <2>1, ConfigIsRead
<1>9. ~r.excluded => LastFirst(r.filters) = FiltersFrom(path, k)
  <2>1. FiltersFrom(path, k) = FiltersAt(path, k) \o FiltersFrom(path, k + 1)
    BY <1>2, <1>5, FiltersFromNext DEF Inv
  <2> HIDE DEF path, r
  <2> QED
    BY <1>6, <1>8, <2>1
<1>10. /\ r.settings \in Settings /\ r.filters \in Seq(FilterLists)
       /\ r.keep_looking \in BOOLEAN /\ r.excluded \in BOOLEAN
  <2> HIDE DEF r
  <2> QED
    BY <1>8 DEF Searches
<1>11. filters = GivenFilters /\ filters_backup = GivenFilters /\ pc = "config"
       /\ GivenFilters' = GivenFilters
  BY <1>7, GivenStay DEF Inv, ConfigInv, ProcessConfigOverrides, OneFile
<1> HIDE DEF path, n, r
<1>12. CASE r.excluded
  BY <1>1, <1>7, <1>10, <1>11, <1>12 DEF ConfigInv, OneFile
<1>13. CASE ~r.excluded /\ r.keep_looking /\ at.dir # <<>>
  <2>1. k # 0
    <3>1. DirAt(path, 0) = <<>>
      BY SubSeqEmpty DEF DirAt
    <3> QED
      BY <1>6, <1>13, <3>1
  <2>2. k \in 1..n /\ k - 1 \in Outermost(path)..n /\ (k - 1) + 1 = k
    <3>1. Outermost(path) # k
      BY <1>4, <1>8, <1>13, <2>1
    <3> QED
      BY <1>2, <1>4, <1>5, <2>1, <3>1
  <2>3. Front(at.dir) = DirAt(path, k - 1)
    BY <1>2, <1>6, <2>2, FrontOfDir DEF n
  <2>4. at'.dir = DirAt(path, k - 1) /\ pc' = pc
    BY <1>7, <1>13, <2>3
  <2>5. LastFirst(cfg_filters') = FiltersFrom(path, (k - 1) + 1)
    BY <1>7, <1>9, <1>13, <2>2
  <2>6. (\E i \in Outermost(Head(todo))..Len(Head(todo).dir) : SearchIsAt(i))'
    BY <1>7, <2>2, <2>4, <2>5, SearchComesTo DEF path, n
  <2> QED
    BY <1>1, <1>7, <1>10, <1>11, <2>4, <2>6 DEF ConfigInv, OneFile
<1>14. CASE ~r.excluded /\ ~(r.keep_looking /\ at.dir # <<>>)
  <2>1. Outermost(path) = k
    <3>1. CASE ~r.keep_looking
      BY <1>2, <1>4, <1>5, <1>8, <1>10, <1>14, <3>1
    <3>2. CASE at.dir = <<>>
      <4>1. k = 0
        <5> SUFFICES ASSUME k # 0 PROVE FALSE
          OBVIOUS
        <5>1. Len(at.dir) = k
          <6>1. \A i \in 1..k : path.dir[i] \in STRING
            BY <1>2, <1>5, ElementOfSeq DEF n
          <6>2. Len(SubSeq(path.dir, 1, k)) = IF 1 <= k THEN k - 1 + 1 ELSE 0
            BY <1>5, <6>1, SubSeqProperties
          <6> QED
            BY <1>2, <1>5, <1>6, <6>2 DEF DirAt
        <5>2. Len(<<>>) = 0
          BY EmptySeq
        <5> QED
          BY <3>2, <5>1, <5>2
      <4> QED
        BY <1>2, <1>4, <1>5, <4>1
    <3> QED
      BY <1>10, <1>14, <3>1, <3>2
  <2>2. LastFirst(cfg_filters') = FiltersAbove(path)
    BY <1>7, <1>9, <1>14, <2>1 DEF FiltersAbove
  <2>3. (LastFirst(cfg_filters) = FiltersAbove(Head(todo)))'
    BY <1>7, <2>2, FileStays DEF path
  <2>4. pc' = "filters"
    BY <1>7, <1>14
  <2> QED
    BY <1>1, <1>7, <1>10, <1>11, <2>3, <2>4 DEF ConfigInv, OneFile
<1> QED
  BY <1>10, <1>12, <1>13, <1>14

\* The filters of the file are those found.
LEMMA FiltersStep ==
  ASSUME Inv, AddFilters
  PROVE  ConfigInv'
<1>1. /\ UNCHANGED <<job, todo, settings, filters_backup, cfg_filters>>
      /\ pc' = "open" /\ pc = "filters" /\ filters' = filters \o LastFirst(cfg_filters)
  BY DEF AddFilters, search
<1>2. filters' = GivenFilters \o FiltersAbove(Head(todo))
  BY <1>1 DEF Inv, ConfigInv
<1>3. (filters = GivenFilters \o FiltersAbove(Head(todo)))'
  BY <1>1, <1>2, FileStays
<1>4. (todo # <<>> /\ filters_backup = GivenFilters)'
  BY <1>1, GivenStay DEF Inv, ConfigInv, OneFile
<1> QED
  BY <1>1, <1>3, <1>4 DEF Inv, ConfigInv, OneFile

\* Behind the file they are set back.
LEMMA RestoreStep ==
  ASSUME Inv, RestoreFilters
  PROVE  ConfigInv'
<1>1. /\ UNCHANGED <<job, settings, cfg_filters>>
      /\ pc' = "next" /\ filters' = filters_backup /\ todo' = Tail(todo)
  BY DEF RestoreFilters, search
<1>2. filters' = GivenFilters /\ GivenFilters' = GivenFilters
  BY <1>1, GivenStay DEF Inv, ConfigInv, RestoreFilters, OneFile
<1>3. todo' \in Seq(Paths)
  BY <1>1, HeadIsPath DEF Inv, ConfigInv, RestoreFilters, OneFile
<1> QED
  BY <1>1, <1>2, <1>3 DEF Inv, ConfigInv, OneFile

\* The other steps of a file leave its configuration alone.
LEMMA FileStep ==
  ASSUME Inv, SkipInput \/ IgnoreFile \/ ProcessFileData \/ ProcessLine \/ EndOfFile
  PROVE  ConfigInv'
<1>1. /\ UNCHANGED <<job, todo, settings, filters, filters_backup, cfg_filters>>
      /\ pc \in {"open", "lines"} /\ pc' \in {"lines", "restore"}
  BY DEF SkipInput, IgnoreFile, ProcessFileData, ProcessLine, CheckedLine, EndOfFile, search,
         config
<1>2. (filters = GivenFilters \o FiltersAbove(Head(todo)))'
  BY <1>1, FileStays DEF Inv, ConfigInv
<1>3. (todo # <<>> /\ filters_backup = GivenFilters)'
  BY <1>1, GivenStay DEF Inv, ConfigInv, OneFile
<1> QED
  BY <1>1, <1>2, <1>3 DEF Inv, ConfigInv, OneFile

\* A program that ends has no file.
LEMMA EndStep ==
  ASSUME Inv, BadArguments \/ BadFilter \/ Finish
  PROVE  ConfigInv'
<1>1. UNCHANGED <<todo, settings, cfg_filters>> /\ pc' = "exit"
  BY DEF BadArguments, BadFilter, Finish, Die, search, config
<1> QED
  BY <1>1 DEF Inv, ConfigInv, OneFile

\* The files that are kept of a list, one after the other,
LEMMA KeptUnroll ==
  ASSUME NEW names \in Seq(Paths)
  PROVE  \E run : /\ run[0] = <<>>
                  /\ \A k \in 1..Len(names) :
                       run[k] = IF names[k] \in job.args.excludes THEN run[k - 1]
                                ELSE Append(run[k - 1], names[k])
                  /\ \A k \in 0..Len(names) : run[k] \in Seq(Paths)
                  /\ _FilterExcludedFiles(names) = run[Len(names)]
<1> DEFINE n == Len(names)
           keep(kept, i) == IF names[i] \in job.args.excludes THEN kept ELSE Append(kept, names[i])
           IsIt(h) == h = [k \in 0..n |-> IF k = 0 THEN <<>> ELSE keep(h[k - 1], k)]
           run == CHOOSE h : IsIt(h)
<1>1. n \in Nat /\ \A i \in 1..n : names[i] \in Paths
  BY LenProperties, ElementOfSeq
<1>2. \A i \in 1..n : \A v \in Seq(Paths) : keep(v, i) \in Seq(Paths)
  BY <1>1, AppendProperties
<1>3. _FilterExcludedFiles(names) = run[n]
  BY DEF _FilterExcludedFiles, Loop
<1> HIDE DEF keep, n
<1>4. <<>> \in Seq(Paths)
  BY EmptySeq
<1>5. PICK h : IsIt(h)
  <2> DEFINE step == [k \in 1..n |-> [v \in Seq(Paths) |-> keep(v, k)]]
  <2>1. \A k \in 1..n : \A v \in Seq(Paths) : step[k][v] = keep(v, k)
    OBVIOUS
  <2>2. \A k \in 1..n : \A v \in Seq(Paths) : step[k][v] \in Seq(Paths)
    BY <1>2, <2>1
  <2> HIDE DEF step
  <2>3. PICK h : Unrolls(n, Seq(Paths), <<>>, step, h)
    BY <1>1, <1>4, <2>2, RecursionExists
  <2>4. \A k \in 1..n : k - 1 \in 0..n /\ h[k - 1] \in Seq(Paths)
    BY <1>1, <2>3 DEF Unrolls
  <2>5. \A k \in 0..n : h[k] = IF k = 0 THEN <<>> ELSE keep(h[k - 1], k)
    <3>1. h[0] = <<>> /\ \A k \in 1..n : h[k] = step[k][h[k - 1]]
      BY <2>3 DEF Unrolls
    <3>2. \A k \in 1..n : step[k][h[k - 1]] = keep(h[k - 1], k)
      BY <2>1, <2>4
    <3>3. \A k \in 0..n : k = 0 \/ k \in 1..n
      BY <1>1
    <3> QED
      BY <3>1, <3>2, <3>3
  <2> QED
    BY <2>3, <2>5 DEF Unrolls
<1>6. IsIt(run)
  <2> HIDE DEF IsIt
  <2> QED
    BY <1>5
<1> HIDE DEF run
<1>7. run[0] = <<>>
  BY <1>1, <1>6
<1>8. \A k \in 1..n : run[k - 1] \in Seq(Paths) => run[k] \in Seq(Paths)
  <2> SUFFICES ASSUME NEW k \in 1..n, run[k - 1] \in Seq(Paths) PROVE run[k] \in Seq(Paths)
    OBVIOUS
  <2>1. run[k] = keep(run[k - 1], k)
    BY <1>1, <1>6
  <2> HIDE DEF IsIt
  <2> QED
    BY <1>2, <2>1
<1>9. \A k \in 0..n : run[k] \in Seq(Paths)
  BY <1>1, <1>4, <1>7, <1>8, RunStays
<1>10. \A k \in 1..n : run[k] = keep(run[k - 1], k)
  BY <1>1, <1>6
<1> HIDE DEF IsIt
<1> QED
  BY <1>3, <1>7, <1>9, <1>10 DEF keep, n

\* which are files again,
LEMMA KeptArePaths ==
  ASSUME NEW names \in Seq(Paths)
  PROVE  _FilterExcludedFiles(names) \in Seq(Paths)
<1>1. Len(names) \in 0..Len(names)
  BY LenProperties
<1> QED
  BY <1>1, KeptUnroll

\* each as often as before.
LEMMA KeptAreDistinct ==
  ASSUME NEW names \in Seq(Paths), IsInjective(names)
  PROVE  IsInjective(_FilterExcludedFiles(names))
<1> DEFINE n == Len(names)
           P(v, k) == IsInjective(v) /\ \A i \in DOMAIN v : \E m \in 1..k : v[i] = names[m]
<1>1. n \in Nat /\ DOMAIN names = 1..n /\ \A i \in 1..n : names[i] \in Paths
  BY LenProperties, ElementOfSeq
<1>2. PICK run : /\ run[0] = <<>>
                 /\ \A k \in 1..n : run[k] = IF names[k] \in job.args.excludes THEN run[k - 1]
                                             ELSE Append(run[k - 1], names[k])
                 /\ \A k \in 0..n : run[k] \in Seq(Paths)
                 /\ _FilterExcludedFiles(names) = run[n]
  BY KeptUnroll
<1>3. \A a, b \in 1..n : names[a] = names[b] => a = b
  BY <1>1 DEF IsInjective
<1> DEFINE T == {k \in 0..n : P(run[k], k)}
<1> HIDE DEF n
<1>4. 0 \in T
  BY <1>1, <1>2, EmptySeq DEF IsInjective
<1>5. ASSUME NEW k \in 1..n, k - 1 \in T PROVE k \in T
  <2> DEFINE u == run[k - 1]
             v == run[k]
  <2>1. u \in Seq(Paths) /\ k - 1 \in 0..n /\ P(u, k - 1)
    BY <1>1, <1>2, <1>5
  <2>2. v = u \/ v = Append(u, names[k])
    BY <1>2
  <2> HIDE DEF u, v
  <2>3. \A i \in DOMAIN u : u[i] # names[k]
    BY <1>1, <1>3, <2>1
  <2>4. CASE v = u
    <3>1. P(v, k)
      BY <1>1, <2>1, <2>4
    <3> QED
      BY <1>1, <3>1 DEF v
  <2>5. CASE v = Append(u, names[k])
    <3>1. /\ DOMAIN u = 1..Len(u) /\ Len(u) \in Nat /\ DOMAIN v = 1..(Len(u) + 1)
          /\ \A i \in 1..Len(u) : v[i] = u[i]
          /\ v[Len(u) + 1] = names[k]
      BY <1>1, <2>1, <2>5, AppendProperties, LenProperties
    <3>2. IsInjective(v)
      <4> SUFFICES ASSUME NEW a \in DOMAIN v, NEW b \in DOMAIN v, v[a] = v[b] PROVE a = b
        BY DEF IsInjective
      <4>1. \A i \in DOMAIN v : i = Len(u) + 1 \/ i \in DOMAIN u
        BY <3>1
      <4>2. \A x, y \in DOMAIN u : u[x] = u[y] => x = y
        BY <2>1 DEF IsInjective
      <4> QED
        BY <2>3, <3>1, <4>1, <4>2
    <3>3. \A i \in DOMAIN v : \E m \in 1..k : v[i] = names[m]
      <4> SUFFICES ASSUME NEW i \in DOMAIN v PROVE \E m \in 1..k : v[i] = names[m]
        OBVIOUS
      <4>1. CASE i = Len(u) + 1
        BY <1>1, <3>1, <4>1
      <4>2. CASE i # Len(u) + 1
        <5>1. i \in DOMAIN u /\ v[i] = u[i]
          BY <3>1, <4>2
        <5>2. PICK m \in 1..(k - 1) : u[i] = names[m]
          BY <2>1, <5>1
        <5>3. m \in 1..k
          BY <1>1
        <5> QED
          BY <5>1, <5>2, <5>3
      <4> QED
        BY <4>1, <4>2
    <3> QED
      BY <1>1, <3>2, <3>3 DEF v
  <2> QED
    BY <2>2, <2>4, <2>5
<1>6. n \in T
  <2> HIDE DEF T
  <2>1. \A k \in 0..n : k \in T
    BY <1>1, <1>4, <1>5, Climbs
  <2> QED
    BY <1>1, <2>1
<1> QED
  BY <1>2, <1>6

\* The files below a list of directories, in any order.
LEMMA ExpandedArePaths ==
  ASSUME WellTyped(job), NEW files \in SetToSeqs(_ExpandDirectories(job.args.names))
  PROVE  files \in Seq(Paths) /\ IsInjective(files)
<1> DEFINE names == job.args.names
           found == UNION {Under(names[i]) : i \in DOMAIN names}
           S     == _ExpandDirectories(names)
<1>1. names \in Seq(Paths) /\ IsFiniteSet(DOMAIN job.disk) /\ \A p \in DOMAIN job.disk : p \in Paths
  BY DEF WellTyped, Arguments
<1>2. Len(names) \in Nat /\ DOMAIN names = 1..Len(names) /\ \A i \in 1..Len(names) : names[i] \in Paths
  BY <1>1, LenProperties, ElementOfSeq
<1>3. S \in SUBSET found
  BY DEF _ExpandDirectories
<1>4. IsFiniteSet({names[i] : i \in DOMAIN names})
  <2> DEFINE T == {names[i] : i \in DOMAIN names}
             f == [i \in 1..Len(names) |-> names[i]]
  <2>1. f \in Surjection(1..Len(names), T)
    BY <1>2 DEF Surjection
  <2>2. IsFiniteSet(1..Len(names))
    BY <1>2, FS_Interval
  <2> QED
    BY <2>1, <2>2, FS_Surjection
<1>5. /\ S \in SUBSET ({names[i] : i \in DOMAIN names} \cup DOMAIN job.disk)
      /\ S \in SUBSET Paths
  <2>1. \A p : Under(p) \subseteq {p} \cup DOMAIN job.disk
    BY DEF Under
  <2>2. found \subseteq {names[i] : i \in DOMAIN names} \cup DOMAIN job.disk
    BY <2>1
  <2>3. {names[i] : i \in DOMAIN names} \cup DOMAIN job.disk \subseteq Paths
    BY <1>1, <1>2
  <2> HIDE DEF found, S
  <2> QED
    BY <1>3, <2>2, <2>3
<1>6. IsFiniteSet(S)
  <2> HIDE DEF S
  <2>1. IsFiniteSet({names[i] : i \in DOMAIN names} \cup DOMAIN job.disk)
    BY <1>1, <1>4, FS_Union
  <2> QED
    BY <1>5, <2>1, FS_Subset
<1>7. Cardinality(S) \in Nat
  <2> HIDE DEF S
  <2> QED
    BY <1>6, FS_CardinalityType
<1>8. files \in [1..Cardinality(S) -> S] /\ IsInjective(files)
  BY DEF SetToSeqs, IsInjective
<1> HIDE DEF S
<1>9. files \in [1..Cardinality(S) -> Paths]
  BY <1>5, <1>8
<1> QED
  BY <1>7, <1>8, <1>9, OnNumbers

\* The arguments give the first settings, the filters of every file and the files.
LEMMA ArgumentsStep ==
  ASSUME Inv, ParseArguments
  PROVE  ConfigInv' /\ (Once => IsInjective(todo'))
<1>1. /\ UNCHANGED <<job, cfg_filters>> /\ pc' = "next" /\ settings' = job.args.settings
      /\ filters' = GivenFilters
  BY DEF ParseArguments, search, GivenFilters
<1>2. todo' \in Seq(Paths) /\ (Once => IsInjective(todo'))
  <2>1. PICK names \in IF job.args.recursive THEN SetToSeqs(_ExpandDirectories(job.args.names))
                       ELSE {job.args.names} :
          todo' = _FilterExcludedFiles(names)
    BY DEF ParseArguments
  <2>2. names \in Seq(Paths) /\ (Once => IsInjective(names))
    <3>1. CASE job.args.recursive
      <4>1. names \in SetToSeqs(_ExpandDirectories(job.args.names))
        BY <2>1, <3>1
      <4> QED
        BY <4>1, ExpandedArePaths DEF Inv
    <3>2. CASE ~job.args.recursive
      BY <2>1, <3>2 DEF Inv, WellTyped, Arguments, Once
    <3> QED
      BY <3>1, <3>2
  <2> QED
    BY <2>1, <2>2, KeptArePaths, KeptAreDistinct
<1>3. job.args.settings \in Settings
  BY DEF Inv, WellTyped, Arguments
<1>4. (filters = GivenFilters)'
  BY <1>1, GivenStay
<1> QED
  BY <1>1, <1>2, <1>3, <1>4 DEF Inv, ConfigInv, OneFile

-----------------------------------------------------------------------------
(* What is reported is counted.                                            *)
\* What is in a list with one more element.
LEMMA RangeAppend ==
  ASSUME NEW r, IsList(r), NEW x
  PROVE  Range(Append(r, x)) = Range(r) \cup {x}
<1> DEFINE n  == Len(r)
           r2 == Append(r, x)
<1>1. n \in Nat /\ DOMAIN r = 1..n
  BY ListFacts
<1>2. /\ IsList(r2) /\ Len(r2) = n + 1 /\ DOMAIN r2 = 1..(n + 1)
      /\ \A i \in 1..n : r2[i] = r[i]
      /\ r2[n + 1] = x
  BY ListAppend, ListFacts
<1> HIDE DEF n, r2
<1>3. \A i \in 1..n : i \in 1..(n + 1)
  BY <1>1
<1>4. n + 1 \in 1..(n + 1) /\ \A i \in 1..(n + 1) : i = n + 1 \/ i \in 1..n
  BY <1>1
<1>5. Range(r2) = {r2[i] : i \in 1..(n + 1)} /\ Range(r) = {r[i] : i \in 1..n}
  BY <1>1, <1>2 DEF Range
<1>6. Range(r2) = Range(r) \cup {x}
  BY <1>2, <1>3, <1>4, <1>5
<1> QED
  BY <1>6 DEF r2

\* One more error, and one more in its category.
LEMMA CountsGrow ==
  ASSUME NEW r, IsList(r), NEW x, job.args.counting # "total"
  PROVE  CountsOf(Append(r, x)) = IncrementErrorCount(CountsOf(r), Counted(x.error.category))
<1> DEFINE Cat(q)   == Counted(q.error.category)
           Cats(s)  == {Cat(q) : q \in Range(s)}
           In(s, d) == {i \in DOMAIN s : Cat(s[i]) = d}
           n  == Len(r)
           r2 == Append(r, x)
           c  == Cat(x)
<1>1. n \in Nat /\ DOMAIN r = 1..n
  BY ListFacts
<1>2. /\ IsList(r2) /\ Len(r2) = n + 1 /\ DOMAIN r2 = 1..(n + 1)
      /\ \A i \in 1..n : r2[i] = r[i]
      /\ r2[n + 1] = x
  BY ListAppend, ListFacts
<1>3. /\ CountsOf(r2) = [d \in Cats(r2) |-> Cardinality(In(r2, d))]
      /\ CountsOf(r) = [d \in Cats(r) |-> Cardinality(In(r, d))]
  BY DEF CountsOf
<1> HIDE DEF n, r2, c, Cat
<1>4. Cats(r2) = Cats(r) \cup {c}
  <2>1. Range(r2) = Range(r) \cup {x}
    BY RangeAppend DEF r2
  <2> QED
    BY <2>1 DEF c
<1>5. ASSUME NEW d
      PROVE  /\ Cardinality(In(r2, d)) = (IF d \in Cats(r) THEN Cardinality(In(r, d)) ELSE 0)
                                           + (IF d = c THEN 1 ELSE 0)
  <2>1. In(r2, d) = IF d = c THEN In(r, d) \cup {n + 1} ELSE In(r, d)
    <3>1. \A i \in 1..(n + 1) : i = n + 1 \/ i \in 1..n
      BY <1>1
    <3>2. n + 1 \in 1..(n + 1) /\ \A i \in 1..n : i \in 1..(n + 1)
      BY <1>1
    <3>3. \A i \in 1..n : Cat(r2[i]) = Cat(r[i])
      BY <1>2
    <3>4. Cat(r2[n + 1]) = c
      BY <1>2 DEF c
    <3> QED
      BY <1>1, <1>2, <3>1, <3>2, <3>3, <3>4
  <2>2. n + 1 \notin In(r, d)
    BY <1>1
  <2>3. IsFiniteSet(In(r, d))
    <3>1. IsFiniteSet(1..n)
      BY <1>1, FS_Interval
    <3> QED
      BY <1>1, <3>1, FS_Subset
  <2>4. Cardinality(In(r, d)) \in Nat
    BY <2>3, FS_CardinalityType
  <2>5. d \notin Cats(r) => In(r, d) = {}
    BY DEF Range
  <2>6. d \notin Cats(r) => Cardinality(In(r, d)) = 0
    BY <2>5, FS_EmptySet
  <2>7. Cardinality(In(r, d) \cup {n + 1}) = Cardinality(In(r, d)) + 1
    BY <2>2, <2>3, FS_AddElement
  <2> HIDE DEF In, Cats
  <2> QED
    BY <2>1, <2>4, <2>6, <2>7
<1> HIDE DEF In, Cats
<1> DEFINE old == [d \in Cats(r) |-> Cardinality(In(r, d))]
           new == [d \in Cats(r) \cup {c} |->
                     (IF d \in Cats(r) THEN old[d] ELSE 0) + (IF d = c THEN 1 ELSE 0)]
<1>6. [d \in Cats(r2) |-> Cardinality(In(r2, d))] = new
  BY <1>4, <1>5
<1>7. IncrementErrorCount(old, c) = new
  BY DEF IncrementErrorCount
<1> HIDE DEF old, new
<1> QED
  BY <1>3, <1>6, <1>7 DEF old, r2, c, Cat

\* An error as it is printed.
Shown(e) == [file |-> Head(todo), error |-> e]

\* What is printed is counted.
LEMMA PrintedCounts ==
  ASSUME NEW v, IsList(v.reported), v.count = Len(v.reported), v.bag = CountsOf(v.reported), NEW e
  PROVE  LET w == Printed(v, e)
         IN  /\ IsList(w.reported) /\ w.count = Len(w.reported) /\ w.bag = CountsOf(w.reported)
             /\ Range(w.reported) = Range(v.reported) \cup {Shown(e)}
<1> DEFINE x == [file |-> Head(todo), error |-> e]
           w == Printed(v, e)
<1>1. /\ w.reported = Append(v.reported, x)
      /\ w.count = v.count + 1
      /\ w.bag = IF job.args.counting = "total" THEN v.bag
                 ELSE IncrementErrorCount(v.bag, Counted(e.category))
  BY DEF Printed
<1>2. x.error = e
  OBVIOUS
<1> HIDE DEF w, x
<1>3. IsList(w.reported) /\ w.count = Len(w.reported)
  BY <1>1, ListAppend
<1>4. ASSUME job.args.counting = "total" PROVE w.bag = CountsOf(w.reported)
  BY <1>1, <1>3, <1>4 DEF w, CountsOf
<1>5. ASSUME job.args.counting # "total" PROVE w.bag = CountsOf(w.reported)
  <2>1. CountsOf(w.reported) = IncrementErrorCount(CountsOf(v.reported), Counted(e.category))
    BY <1>1, <1>2, <1>5, CountsGrow
  <2> QED
    BY <1>1, <1>3, <1>5, <2>1 DEF w
<1>6. Range(w.reported) = Range(v.reported) \cup {Shown(e)}
  BY <1>1, RangeAppend DEF x, Shown
<1> QED
  BY <1>3, <1>4, <1>5, <1>6 DEF w

\* The counts are of the same errors, whatever else changes.
LEMMA CountsStay ==
  ASSUME job' = job
  PROVE  CountsOf(reported)' = CountsOf(reported')
BY DEF CountsOf, Counted

\* A list of errors: those that are to be printed are reported, and counted.
LEMMA ErrorReports ==
  ASSUME NEW errors, IsList(errors), NEW sup, ReportInv, Error(errors, sup), job' = job
  PROVE  /\ ReportInv'
         /\ Range(reported') =
              Range(reported) \cup {Shown(e) : e \in {d \in Range(errors) : _ShouldPrintError(d, sup)}}
<1> DEFINE n == Len(errors)
           x == [reported |-> reported, count |-> error_count, bag |-> errors_by_category]
           IsCounted(v) == IsList(v.reported) /\ v.count = Len(v.reported) /\ v.bag = CountsOf(v.reported)
           New(m)  == {Shown(errors[i]) : i \in {j \in 1..m : _ShouldPrintError(errors[j], sup)}}
           P(v, m) == IsCounted(v) /\ Range(v.reported) = Range(reported) \cup New(m)
           step(v, k) == IF _ShouldPrintError(errors[k], sup) THEN Printed(v, errors[k]) ELSE v
           IsRun(h, m) == h = [k \in 0..m |-> IF k = 0 THEN x ELSE step(h[k - 1], k)]
           run == CHOOSE h : IsRun(h, n)
<1>0. New(0) = {}
  OBVIOUS
<1>1. n \in Nat /\ P(x, 0)
  BY <1>0, ListFacts DEF ReportInv
<1>2. ASSUME NEW k \in 1..n, NEW v, P(v, k - 1) PROVE P(step(v, k), k)
  <2>1. \A j \in 1..k : j = k \/ j \in 1..(k - 1)
    BY <1>1
  <2>2. k \in 1..k /\ \A j \in 1..(k - 1) : j \in 1..k
    BY <1>1
  <2>3. New(k) = IF _ShouldPrintError(errors[k], sup) THEN New(k - 1) \cup {Shown(errors[k])} ELSE New(k - 1)
    BY <2>1, <2>2
  <2> HIDE DEF New
  <2>4. CASE _ShouldPrintError(errors[k], sup)
    <3>1. IsCounted(v) /\ Range(v.reported) = Range(reported) \cup New(k - 1)
      BY <1>2
    <3> DEFINE w == Printed(v, errors[k])
    <3>2. IsCounted(w) /\ Range(w.reported) = Range(v.reported) \cup {Shown(errors[k])}
      BY <3>1, PrintedCounts
    <3> HIDE DEF w, IsCounted
    <3>3. P(w, k)
      BY <2>3, <2>4, <3>1, <3>2
    <3> QED
      BY <2>4, <3>3 DEF w
  <2>5. CASE ~_ShouldPrintError(errors[k], sup)
    BY <1>2, <2>3, <2>5
  <2> QED
    BY <2>4, <2>5
<1>3. /\ reported' = run[n].reported /\ error_count' = run[n].count
      /\ errors_by_category' = run[n].bag
  BY DEF Error, Loop
<1> HIDE DEF step, n, x, P
<1>4. \E h : IsRun(h, n)
  <2> DEFINE T == {m \in 0..n : \E h : IsRun(h, m)}
  <2>1. 0 \in T
    <3> DEFINE h == [k \in 0..0 |-> x]
    <3>0. \A k \in 0..0 : x = IF k = 0 THEN x ELSE step(h[k - 1], k)
      OBVIOUS
    <3>1. IsRun(h, 0)
      BY <3>0
    <3> HIDE DEF h, IsRun
    <3> QED
      BY <1>1, <3>1
  <2>2. ASSUME NEW m \in 1..n, m - 1 \in T PROVE m \in T
    <3>1. PICK h : IsRun(h, m - 1)
      BY <2>2
    <3> DEFINE h2 == [k \in 0..m |-> IF k = m THEN step(h[m - 1], m) ELSE h[k]]
    <3>2. h2[m] = step(h[m - 1], m) /\ \A k \in 0..(m - 1) : h2[k] = h[k]
      OBVIOUS
    <3>3. \A k \in 0..(m - 1) : h[k] = IF k = 0 THEN x ELSE step(h[k - 1], k)
      BY <3>1
    <3>4. ASSUME NEW k \in 0..m PROVE h2[k] = IF k = 0 THEN x ELSE step(h2[k - 1], k)
      <4> HIDE DEF h2
      <4>1. CASE k = m
        BY <3>2, <4>1
      <4>2. CASE k # m
        <5>1. k \in 0..(m - 1) /\ (k # 0 => k - 1 \in 0..(m - 1))
          BY <4>2
        <5> QED
          BY <3>2, <3>3, <5>1
      <4> QED
        BY <4>1, <4>2
    <3>5. h2 = [k \in 0..m |-> h2[k]]
      OBVIOUS
    <3> HIDE DEF h2
    <3>6. IsRun(h2, m)
      BY <3>4, <3>5
    <3> QED
      BY <3>6
  <2> HIDE DEF T
  <2>3. \A k \in 0..n : k \in T
    BY <1>1, <2>1, <2>2, Climbs
  <2>4. n \in T
    BY <1>1, <2>3
  <2> QED
    BY <2>4 DEF T
<1>5. IsRun(run, n)
  <2> HIDE DEF IsRun
  <2> QED
    BY <1>4
<1> HIDE DEF run
<1>6. run[0] = x /\ \A k \in 1..n : run[k] = step(run[k - 1], k)
  BY <1>1, <1>5
<1> HIDE DEF IsRun
<1>7. P(run[n], n)
  <2> DEFINE T == {k \in 0..n : P(run[k], k)}
  <2>1. 0 \in T
    BY <1>1, <1>6
  <2>2. ASSUME NEW k \in 1..n, k - 1 \in T PROVE k \in T
    <3>1. P(run[k - 1], k - 1)
      BY <2>2
    <3>2. P(step(run[k - 1], k), k)
      BY <1>2, <3>1
    <3> QED
      BY <1>6, <3>2
  <2> HIDE DEF T
  <2>3. \A k \in 0..n : k \in T
    BY <1>1, <2>1, <2>2, Climbs
  <2>4. n \in T
    BY <1>1, <2>3
  <2> QED
    BY <2>4 DEF T
<1>8. New(n) = {Shown(e) : e \in {d \in Range(errors) : _ShouldPrintError(d, sup)}}
  <2>1. DOMAIN errors = 1..n
    BY ListFacts DEF n
  <2>2. Range(errors) = {errors[i] : i \in 1..n}
    BY <2>1 DEF Range
  <2> QED
    BY <2>2
<1>9. IsCounted(run[n]) /\ Range(run[n].reported) = Range(reported) \cup New(n)
  BY <1>7 DEF P
<1>10. ReportInv'
  BY <1>3, <1>9, CountsStay DEF ReportInv
<1> HIDE DEF New
<1> QED
  BY <1>3, <1>8, <1>9, <1>10

-----------------------------------------------------------------------------
(* What is let through: the filters and the NOLINT comments.               *)
\* The last filter that matches decides.
LEMMA LastFilterDecides ==
  ASSUME NEW fs, IsList(fs), WellFormed(fs), NEW category
  PROVE  LET k == Max({0} \cup {i \in DOMAIN fs : IsPrefix(fs[i][2], category)})
         IN  IsFiltered(fs, category) <=> ~(k = 0 \/ fs[k][1] = "+")
<1> DEFINE I == {i \in 1..Len(fs) : IsPrefix(fs[i][2], category)}
           k == Max({0} \cup {i \in DOMAIN fs : IsPrefix(fs[i][2], category)})
           last == IF I # {} THEN Max(I) ELSE 0
<1>1. Len(fs) \in Nat /\ DOMAIN fs = 1..Len(fs)
  BY ListFacts
<1>2. IsFiltered(fs, category) <=> last # 0 /\ fs[last][1] = "-"
  BY DEF IsFiltered, SelectLastInSeq
<1>3. {i \in DOMAIN fs : IsPrefix(fs[i][2], category)} = I
  BY <1>1
<1>4. I \subseteq 1..Len(fs)
  OBVIOUS
<1> HIDE DEF I
<1>5. I # {} => Max(I) \in I /\ \A i \in I : i <= Max(I)
  <2>1. I # {} => \E j \in I : \A i \in I : i <= j
    <3> SUFFICES ASSUME I # {} PROVE \E j \in I : \A i \in I : i <= j
      OBVIOUS
    <3> DEFINE U == {Len(fs) - i : i \in I}
    <3>0. \A i \in I : Len(fs) - i \in Nat
      BY <1>1, <1>4
    <3>1. U \in SUBSET Nat /\ U # {}
      BY <3>0
    <3>2. PICK m \in U : \A u \in U : m <= u
      <4> HIDE DEF U
      <4> QED
        BY <3>1, LeastNatural
    <3>3. PICK j \in I : m = Len(fs) - j
      BY <3>2
    <3>4. \A i \in I : Len(fs) - j <= Len(fs) - i
      BY <3>2, <3>3
    <3> QED
      BY <1>1, <1>4, <3>4
  <2> QED
    BY <2>1 DEF Max
<1>6. \A i \in I : i \in Nat \ {0}
  BY <1>1, <1>4
<1>7. k = last
  <2>1. k = Max({0} \cup I)
    BY <1>3
  <2>2. CASE I = {}
    <3>1. {0} \cup I = {0}
      BY <2>2
    <3>2. Max({0}) = 0
      BY DEF Max
    <3> QED
      BY <2>1, <2>2, <3>1, <3>2
  <2>3. CASE I # {}
    <3>1. Max(I) \in {0} \cup I /\ \A i \in {0} \cup I : i <= Max(I)
      BY <1>5, <1>6, <2>3
    <3>2. \A j \in {0} \cup I : (\A i \in {0} \cup I : i <= j) => j = Max(I)
      <4>1. \A j \in {0} \cup I : j \in Nat
        BY <1>6
      <4>2. ASSUME NEW j \in {0} \cup I, \A i \in {0} \cup I : i <= j PROVE j = Max(I)
        <5>1. Max(I) <= j /\ j <= Max(I)
          BY <3>1, <4>2
        <5>2. j \in Nat /\ Max(I) \in Nat
          BY <3>1, <4>1
        <5> HIDE DEF Max
        <5> QED
          BY <5>1, <5>2
      <4> QED
        BY <4>2
    <3>3. Max({0} \cup I) = Max(I)
      BY <3>1, <3>2 DEF Max
    <3> QED
      BY <2>1, <2>3, <3>3
  <2> QED
    BY <2>2, <2>3
<1>8. last # 0 => last \in DOMAIN fs
  BY <1>1, <1>4, <1>5
<1>9. last # 0 => fs[last][1] \in {"+", "-"}
  BY <1>8 DEF WellFormed
<1> HIDE DEF k, last
<1>10. IsFiltered(fs, category) <=> ~(k = 0 \/ fs[k][1] = "+")
  BY <1>2, <1>7, <1>9
<1> QED
  BY <1>10 DEF k

\* An error is to be printed if no comment suppresses it and it is admitted.
LEMMA PrintedIfAdmitted ==
  ASSUME IsList(filters), WellFormed(filters), filters = GivenFilters \o FiltersAbove(Head(todo)),
         NEW e, NEW sup
  PROVE  _ShouldPrintError(e, sup)
           <=> /\ ~IsErrorSuppressedByNolint(sup, e.category, e.line)
               /\ AdmittedIn(Head(todo), e.category, e.confidence)
<1> DEFINE k == Max({0} \cup {i \in DOMAIN filters : IsPrefix(filters[i][2], e.category)})
<1>1. IsFiltered(filters, e.category) <=> ~(k = 0 \/ filters[k][1] = "+")
  BY LastFilterDecides
<1>2. AdmittedIn(Head(todo), e.category, e.confidence)
        <=> e.confidence >= job.args.verbose /\ (k = 0 \/ filters[k][1] = "+")
  BY DEF AdmittedIn
<1> HIDE DEF k
<1> QED
  BY <1>1, <1>2 DEF _ShouldPrintError

\* Filters with a sign, one list of them behind another.
LEMMA SignsStay ==
  ASSUME NEW a, NEW b, IsList(a), IsList(b), WellFormed(a), WellFormed(b)
  PROVE  IsList(a \o b) /\ WellFormed(a \o b)
<1>1. \A x \in Range(a) \cup Range(b) : x[1] \in {"+", "-"}
  BY DEF WellFormed, Range
<1>2. IsList(a \o b) /\ Range(a \o b) = Range(a) \cup Range(b)
  BY ListConcat, ListRange
<1> DEFINE c == a \o b
<1> HIDE DEF c
<1>3. \A i \in DOMAIN c : c[i] \in Range(a) \cup Range(b)
  BY <1>2 DEF Range, c
<1>4. WellFormed(c)
  BY <1>1, <1>3 DEF WellFormed
<1> QED
  BY <1>2, <1>4 DEF c

\* Those of the program and the command line are a list of filters.
LEMMA GivenAreFilters ==
  ASSUME WellTyped(job)
  PROVE  IsList(GivenFilters) /\ (WellFormed(job.args.filters) => WellFormed(GivenFilters))
<1>1. job.args.filters \in FilterLists
  BY DEF WellTyped, Arguments
<1>2. IsList(job.args.filters)
  BY <1>1, SeqIsList DEF FilterLists
<1>3. IsList(DefaultFilters)
  BY ShortLists DEF DefaultFilters
<1>4. WellFormed(DefaultFilters)
  <2>1. DOMAIN DefaultFilters = {1} /\ DefaultFilters[1][1] = "-"
    BY DEF DefaultFilters
  <2> QED
    BY <2>1 DEF WellFormed
<1>5. IsList(GivenFilters)
  BY <1>2, <1>3, ListConcat DEF GivenFilters
<1> QED
  BY <1>2, <1>3, <1>4, <1>5, SignsStay DEF GivenFilters

\* Lists of them as one.
LEMMA LastFirstSigned ==
  ASSUME NEW lists \in Seq(FilterLists), \A i \in DOMAIN lists : WellFormed(lists[i])
  PROVE  IsList(LastFirst(lists)) /\ WellFormed(LastFirst(lists))
<1> DEFINE n == Len(lists)
           run == FilterRun(lists)
           Signed == {f \in FilterLists : WellFormed(f)}
<1>1. n \in Nat /\ DOMAIN lists = 1..n /\ \A i \in 1..n : lists[i] \in FilterLists
  BY LenProperties, ElementOfSeq
<1>2. /\ run[0] = <<>> /\ LastFirst(lists) = run[n]
      /\ \A i \in 1..n : run[i] = lists[i] \o run[i - 1]
      /\ \A i \in 0..n : run[i] \in FilterLists
  BY FilterRunUnfolds
<1> HIDE DEF n, run
<1>3. \A f \in FilterLists : IsList(f)
  BY SeqIsList DEF FilterLists
<1>4. WellFormed(run[0])
  BY <1>2, EmptySeq DEF WellFormed
<1>5. \A i \in 1..n : WellFormed(run[i - 1]) => WellFormed(run[i])
  <2> TAKE i \in 1..n
  <2>0. i - 1 \in 0..n
    BY <1>1
  <2>1. IsList(run[i - 1]) /\ IsList(lists[i]) /\ WellFormed(lists[i])
    BY <1>1, <1>2, <1>3, <2>0
  <2> QED
    BY <1>2, <2>1, SignsStay
<1> DEFINE T == {i \in 0..n : WellFormed(run[i])}
<1>6. 0 \in T /\ \A i \in 1..n : i - 1 \in T => i \in T
  BY <1>1, <1>4, <1>5
<1>7. \A i \in 0..n : i \in T
  <2> HIDE DEF T
  <2> QED
    BY <1>1, <1>6, Climbs
<1>8. n \in 0..n
  BY <1>1
<1> QED
  BY <1>2, <1>3, <1>7, <1>8

-----------------------------------------------------------------------------
(* The steps of a file, and the exit.                                      *)
\* The tokens of a file are text.
LEMMA TextIsLines ==
  ASSUME NEW lines \in Seq(Seq(STRING))
  PROVE  lines \in Seq(Line)
<1>1. ASSUME NEW line \in Seq(STRING) PROVE line \in Line
  <2>1. Len(line) \in Nat /\ line = [i \in 1..Len(line) |-> line[i]]
        /\ \A i \in 1..Len(line) : line[i] \in STRING
    BY LenProperties, ElementOfSeq
  <2>2. \A i \in 1..Len(line) : line[i] \in Alphabet
    BY <2>1 DEF Alphabet
  <2>3. line \in [1..Len(line) -> Alphabet]
    BY <2>1, <2>2
  <2> QED
    BY <2>1, <2>3, OnNumbers DEF Line
<1>2. Len(lines) \in Nat /\ lines = [i \in 1..Len(lines) |-> lines[i]]
      /\ \A i \in 1..Len(lines) : lines[i] \in Seq(STRING)
  BY LenProperties, ElementOfSeq
<1>3. \A i \in 1..Len(lines) : lines[i] \in Line
  BY <1>1, <1>2
<1>4. lines \in [1..Len(lines) -> Line]
  BY <1>2, <1>3
<1> QED
  BY <1>2, <1>4, OnNumbers

\* The lines of the file that is linted.
LEMMA FileIsTyped ==
  ASSUME WellTyped(job), Head(todo) \in DOMAIN job.disk
  PROVE  File.lines \in Seq(Line) /\ Len(File.lines) \in Nat
<1>1. File.lines \in Seq(Seq(STRING))
  BY DEF WellTyped, File, Files
<1> QED
  BY <1>1, TextIsLines, LenProperties

\* The lines that are searched for NOLINT comments.
LEMMA RawIsTyped ==
  ASSUME WellTyped(job), NEW path \in DOMAIN job.disk
  PROVE  RawOf(path) \in Seq(Line) /\ Len(RawOf(path)) \in Nat
<1>1. TextOf(path) \in Seq(Seq(STRING))
  BY DEF WellTyped, TextOf, Files
<1>2. RawOf(path) \in Seq(Line)
  BY <1>1, TextIsLines, RemovedType DEF RawOf
<1> QED
  BY <1>2, LenProperties

\* What the first NOLINT of a line suppresses: its own line or the next one.
LEMMA LineSpeaks ==
  ASSUME NEW raw \in Line, NEW m \in Nat \ {0}, NEW n \in Nat, NEW c
  PROVE  (<<c, n>> \in ParseNolintSuppressions(raw, m) \/ <<ALL, n>> \in ParseNolintSuppressions(raw, m))
           <=> \/ n = m /\ Speaks(raw, "NOLINT", c)
               \/ n = m + 1 /\ Speaks(raw, "NOLINTNEXTLINE", c)
<1> DEFINE i     == Find(raw, {"NOLINT", "NOLINTNEXTLINE"})
           paren == i + 3 <= Len(raw) /\ raw[i + 1] = "(" /\ raw[i + 3] = ")"
           name  == IF paren THEN raw[i + 2] ELSE "*"
           line  == IF raw[i] = "NOLINT" THEN m ELSE m + 1
           cat   == IF name = "*" THEN ALL ELSE Categories[name]
           sup   == ParseNolintSuppressions(raw, m)
<1>1. /\ i # 0 => raw[i] = "NOLINT" \/ raw[i] = "NOLINTNEXTLINE"
  BY FindType
<1>2. NolintOf(raw, m) = IF i = 0 THEN {} ELSE {[line |-> line, name |-> name]}
  BY DEF NolintOf
<1>3. sup = IF i # 0 /\ name \in DOMAIN Categories \cup {"*"} THEN {<<cat, line>>} ELSE {}
  <2> DEFINE r == [line |-> line, name |-> name]
  <2>1. r.line = line /\ r.name = name
    OBVIOUS
  <2>2. CASE i = 0
    BY <1>2, <2>2 DEF ParseNolintSuppressions
  <2>3. CASE i # 0 /\ name \in DOMAIN Categories \cup {"*"}
    <3>1. {t \in NolintOf(raw, m) : t.name \in DOMAIN Categories \cup {"*"}} = {r}
      <4> HIDE DEF i, name, line
      <4> QED
        BY <1>2, <2>1, <2>3
    <3> HIDE DEF i, name, line, r
    <3>2. sup = {<<IF s.name = "*" THEN ALL ELSE Categories[s.name], s.line>> : s \in {r}}
      BY <3>1 DEF ParseNolintSuppressions
    <3> QED
      BY <2>1, <2>3, <3>2
  <2>4. CASE i # 0 /\ name \notin DOMAIN Categories \cup {"*"}
    <3>1. {t \in NolintOf(raw, m) : t.name \in DOMAIN Categories \cup {"*"}} = {}
      <4> HIDE DEF i, name, line
      <4> QED
        BY <1>2, <2>1, <2>4
    <3> HIDE DEF i, name, line, r
    <3> QED
      BY <2>4, <3>1 DEF ParseNolintSuppressions
  <2> QED
    BY <2>2, <2>3, <2>4
<1>4. \A d \in DOMAIN Categories : Categories[d] # ALL
  BY DEF Categories, ALL, Casting, BuildInclude
<1>5. "*" \notin DOMAIN Categories
  BY DEF Categories
<1>6. \A w : Speaks(raw, w, c)
        <=> /\ i # 0 /\ raw[i] = w
            /\ name # "*" => name \in DOMAIN Categories /\ Categories[name] = c
  BY DEF Speaks
<1> HIDE DEF i, paren, name, sup
<1>7. line = n <=> (raw[i] = "NOLINT" /\ n = m) \/ (raw[i] # "NOLINT" /\ n = m + 1)
  OBVIOUS
<1>8. "NOLINT" # "NOLINTNEXTLINE"
  OBVIOUS
<1> HIDE DEF line
<1>9. (<<c, n>> \in sup \/ <<ALL, n>> \in sup)
        <=> i # 0 /\ name \in DOMAIN Categories \cup {"*"} /\ line = n /\ (cat = c \/ cat = ALL)
  BY <1>3
<1>10. (cat = c \/ cat = ALL) /\ name \in DOMAIN Categories \cup {"*"}
         <=> (name # "*" => name \in DOMAIN Categories /\ Categories[name] = c)
  BY <1>4, <1>5
<1> HIDE DEF cat
<1> QED
  BY <1>1, <1>6, <1>7, <1>8, <1>9, <1>10 DEF sup

\* What the comments of a line suppress is no line 0.
LEMMA LinesAreNumbered ==
  ASSUME NEW raw, NEW m \in Nat \ {0}, NEW c
  PROVE  <<c, 0>> \notin ParseNolintSuppressions(raw, m)
<1>1. \A s \in NolintOf(raw, m) : s.line # 0
  BY DEF NolintOf
<1>2. \A p \in ParseNolintSuppressions(raw, m) : \E s \in NolintOf(raw, m) : p[2] = s.line
  BY DEF ParseNolintSuppressions
<1> QED
  BY <1>1, <1>2

\* Of the whole file: the line 0.
LEMMA FileSpeaks ==
  ASSUME NEW lines, NEW c, NEW n
  PROVE  /\ <<c, n>> \in ProcessGlobalSuppresions(lines) => n = 0
         /\ <<c, 0>> \in ProcessGlobalSuppresions(lines)
              <=> \/ c = Casting /\ \E i \in DOMAIN lines : Has(lines[i], "LINT_C_FILE")
                  \/ c = Tab /\ \E i \in DOMAIN lines : Has(lines[i], "LINT_KERNEL_FILE")
BY DEF ProcessGlobalSuppresions

\* When the NOLINT comments of a line and of those before it have been read, what they
\* suppress on it is what its own comments say, those of the line before and of the file.
LEMMA NotesAreRead ==
  ASSUME WellTyped(job), NEW path \in DOMAIN job.disk,
         NEW k \in 0..Len(RawOf(path)), NEW n \in 1..k, NEW c
  PROVE  IsErrorSuppressedByNolint(NotesUpTo(path, k), c, n) <=> Silenced(path, n, c)
<1> DEFINE raw == RawOf(path)
           lines == TextOf(path)
           global == ProcessGlobalSuppresions(lines)
           notes == NotesUpTo(path, k)
<1>1. raw \in Seq(Line) /\ Len(raw) \in Nat
  BY RawIsTyped
<1> HIDE DEF raw, lines
<1>2. ASSUME NEW m \in 1..k PROVE raw[m] \in Line /\ m \in Nat \ {0}
  BY <1>1, ElementOfSeq DEF raw
<1>3. \A p : p \in notes <=> p \in global \/ \E m \in 1..k : p \in ParseNolintSuppressions(raw[m], m)
  BY DEF NotesUpTo, raw, lines
<1>4. n \in Nat \ {0} /\ k \in Nat
  BY <1>1 DEF raw
<1>5. <<c, 0>> \in notes <=> \/ c = Casting /\ \E i \in DOMAIN lines : Has(lines[i], "LINT_C_FILE")
                             \/ c = Tab /\ \E i \in DOMAIN lines : Has(lines[i], "LINT_KERNEL_FILE")
  <2>1. \A m \in 1..k : <<c, 0>> \notin ParseNolintSuppressions(raw[m], m)
    BY <1>2, LinesAreNumbered
  <2>2. <<c, 0>> \in notes <=> <<c, 0>> \in global
    BY <1>3, <2>1
  <2> QED
    BY <2>2, FileSpeaks
<1>6. <<c, n>> \in notes \/ <<ALL, n>> \in notes
        <=> \E m \in 1..k : \/ n = m /\ Speaks(raw[m], "NOLINT", c)
                            \/ n = m + 1 /\ Speaks(raw[m], "NOLINTNEXTLINE", c)
  <2>1. <<c, n>> \notin global /\ <<ALL, n>> \notin global
    BY <1>4, FileSpeaks
  <2>2. \A m \in 1..k : (<<c, n>> \in ParseNolintSuppressions(raw[m], m)
                          \/ <<ALL, n>> \in ParseNolintSuppressions(raw[m], m))
           <=> \/ n = m /\ Speaks(raw[m], "NOLINT", c)
               \/ n = m + 1 /\ Speaks(raw[m], "NOLINTNEXTLINE", c)
    BY <1>2, <1>4, LineSpeaks
  <2> HIDE DEF notes, global
  <2> QED
    BY <1>3, <2>1, <2>2
<1>7. (\E m \in 1..k : \/ n = m /\ Speaks(raw[m], "NOLINT", c)
                       \/ n = m + 1 /\ Speaks(raw[m], "NOLINTNEXTLINE", c))
        <=> \/ Speaks(raw[n], "NOLINT", c)
            \/ n > 1 /\ Speaks(raw[n - 1], "NOLINTNEXTLINE", c)
  <2>1. n > 1 => n - 1 \in 1..k /\ n = (n - 1) + 1
    BY <1>4
  <2>2. \A m \in 1..k : n = m + 1 => n > 1 /\ m = n - 1
    BY <1>4
  <2> QED
    BY <2>1, <2>2
<1> HIDE DEF notes
<1>8. IsErrorSuppressedByNolint(notes, c, n)
        <=> <<c, 0>> \in notes \/ <<c, n>> \in notes \/ <<ALL, n>> \in notes
  BY DEF IsErrorSuppressedByNolint
<1>9. Silenced(path, n, c)
        <=> \/ Speaks(raw[n], "NOLINT", c)
            \/ n > 1 /\ Speaks(raw[n - 1], "NOLINTNEXTLINE", c)
            \/ c = Casting /\ \E i \in DOMAIN lines : Has(lines[i], "LINT_C_FILE")
            \/ c = Tab /\ \E i \in DOMAIN lines : Has(lines[i], "LINT_KERNEL_FILE")
  BY DEF Silenced, raw, lines
<1>10. IsErrorSuppressedByNolint(notes, c, n) <=> Silenced(path, n, c)
  BY <1>5, <1>6, <1>7, <1>8, <1>9
<1> QED
  BY <1>10 DEF notes

\* One more line is read.
LEMMA NotesOfNextLine ==
  ASSUME NEW path, NEW k \in Nat \ {0}
  PROVE  /\ NotesUpTo(path, k) = NotesUpTo(path, k - 1) \cup ParseNolintSuppressions(RawOf(path)[k], k)
         /\ NotesUpTo(path, 0) = ProcessGlobalSuppresions(TextOf(path))
<1> DEFINE Of(m) == ParseNolintSuppressions(RawOf(path)[m], m)
           global == ProcessGlobalSuppresions(TextOf(path))
<1>1. \A j : NotesUpTo(path, j) = global \cup UNION {Of(m) : m \in 1..j}
  BY DEF NotesUpTo
<1> HIDE DEF Of, global
<1>2. \A m \in 1..k : m = k \/ m \in 1..(k - 1)
  OBVIOUS
<1>3. k \in 1..k /\ (\A m \in 1..(k - 1) : m \in 1..k) /\ 1..0 = {}
  OBVIOUS
<1>4. UNION {Of(m) : m \in 1..k} = Of(k) \cup UNION {Of(m) : m \in 1..(k - 1)}
  BY <1>2, <1>3
<1>5. UNION {Of(m) : m \in 1..0} = {}
  BY <1>3
<1> QED
  BY <1>1, <1>4, <1>5 DEF Of, global

\* What is let through of a file does not change while the job does not.
LEMMA SayingsStay ==
  ASSUME job' = job
  PROVE  /\ \A path : RawOf(path)' = RawOf(path)
         /\ \A path, k : NotesUpTo(path, k)' = NotesUpTo(path, k)
         /\ \A path, n, c : Silenced(path, n, c)' <=> Silenced(path, n, c)
         /\ \A path, c, x : AdmittedIn(path, c, x)' <=> AdmittedIn(path, c, x)
         /\ \A path, e : IsLetThrough(path, e)' <=> IsLetThrough(path, e)
<1>1. \A path : RawOf(path)' = RawOf(path) /\ TextOf(path)' = TextOf(path)
  BY DEF RawOf, TextOf
<1>2. \A path, k : NotesUpTo(path, k)' = NotesUpTo(path, k)
  BY <1>1 DEF NotesUpTo
<1>3. \A path, n, c : Silenced(path, n, c)' <=> Silenced(path, n, c)
  BY <1>1 DEF Silenced
<1>4. \A path, c, x : AdmittedIn(path, c, x)' <=> AdmittedIn(path, c, x)
  BY DEF AdmittedIn, FiltersAbove, FiltersFrom, FiltersAt, Outermost, EndsSearch, OptionsAt,
         Configured, DirAt, GivenFilters
<1>5. \A path, e : IsLetThrough(path, e)' <=> IsLetThrough(path, e)
  BY <1>1, <1>3, <1>4 DEF IsLetThrough
<1> QED
  BY <1>1, <1>2, <1>3, <1>4, <1>5

\* Errors of which no comment suppresses what it should not: what is reported of them
\* is let through, and what is admitted and not suppressed is reported.
LEMMA ErrorsPass ==
  ASSUME Inv, pc \in {"open", "lines"}, NEW errors, IsList(errors), NEW sup, Error(errors, sup),
         job' = job,
         \A e \in Range(errors) :
           (e.line \in 1..Len(RawOf(Head(todo))) /\ e.category # MultilineComment
              /\ Silenced(Head(todo), e.line, e.category))
             => IsErrorSuppressedByNolint(sup, e.category, e.line)
  PROVE  /\ ReportInv' /\ LetThroughInv'
         /\ \A r \in Range(reported) : r \in Range(reported')
         /\ \A e \in Range(errors) :
              ~IsErrorSuppressedByNolint(sup, e.category, e.line)
                /\ AdmittedIn(Head(todo), e.category, e.confidence)
              => Shown(e) \in Range(reported')
         /\ \A r \in Range(reported') :
              r \in Range(reported)
              \/ \E e \in Range(errors) :
                   /\ r = Shown(e) /\ ~IsErrorSuppressedByNolint(sup, e.category, e.line)
                   /\ AdmittedIn(Head(todo), e.category, e.confidence)
<1>1. /\ ReportInv'
      /\ Range(reported') =
           Range(reported) \cup {Shown(e) : e \in {d \in Range(errors) : _ShouldPrintError(d, sup)}}
  BY ErrorReports DEF Inv
<1>2. /\ IsList(filters) /\ WellFormed(filters)
      /\ filters = GivenFilters \o FiltersAbove(Head(todo))
  BY DEF Inv, SignInv, ConfigInv
<1>3. \A e : _ShouldPrintError(e, sup)
              <=> /\ ~IsErrorSuppressedByNolint(sup, e.category, e.line)
                  /\ AdmittedIn(Head(todo), e.category, e.confidence)
  BY <1>2, PrintedIfAdmitted
<1>4. \A e : Shown(e).file = Head(todo) /\ Shown(e).error = e
  BY DEF Shown
<1>5. ASSUME NEW r \in Range(reported') PROVE IsLetThrough(r.file, r.error)
  <2>1. CASE r \in Range(reported)
    BY <2>1 DEF Inv, LetThroughInv
  <2>2. CASE r \notin Range(reported)
    <3>1. PICK e \in Range(errors) : r = Shown(e) /\ _ShouldPrintError(e, sup)
      BY <1>1, <1>5, <2>2
    <3>2. IsLetThrough(Head(todo), e)
      BY <1>3, <3>1 DEF IsLetThrough
    <3> QED
      BY <1>4, <3>1, <3>2
  <2> QED
    BY <2>1, <2>2
<1>6. LetThroughInv'
  BY <1>5, SayingsStay DEF LetThroughInv
<1>7. \A r \in Range(reported') :
        r \in Range(reported) \/ \E e \in Range(errors) : r = Shown(e) /\ _ShouldPrintError(e, sup)
  BY <1>1
<1> QED
  BY <1>1, <1>3, <1>6, <1>7

\* What a step reports is of the file at the head.
OfThisFile == \A r \in Range(reported') : r \in Range(reported) \/ r.file = Head(todo)

\* What the length of functions and the language report of a line, and the errors of
\* their categories with it.
LineErrors ==
  Range(CheckForFunctionLengths(function_state, clean_lines.lines, linenum, File.indented).errors)
    \cup Range(CheckLanguage(include_state, clean_lines, linenum).errors)

ErrorsGrow ==
  \A c \in Watched :
    ErrorsOf(c)' = ErrorsOf(c) \cup {n \in {linenum} : \E e \in LineErrors :
                                       e.category = c /\ Passes(linenum, c, e.confidence)}

\* Of those categories, nothing else is new.
OthersAreOld ==
  \A r \in Range(reported') : r.error.category \in Watched => r \in Range(reported) \/ r.error \in LineErrors

\* The states that the two leave behind it.
StatesFollow ==
  /\ function_state' = CheckForFunctionLengths(function_state, clean_lines.lines, linenum, File.indented).state
  /\ include_state' = CheckLanguage(include_state, clean_lines, linenum).state

\* Where the errors of a category are.
LEMMA ErrorsAre ==
  ASSUME NEW c
  PROVE  /\ \A n : n \in ErrorsOf(c) <=> \E r \in Range(reported) :
                     r.file = Head(todo) /\ r.error.category = c /\ r.error.line = n
         /\ \A n : n \in ErrorsOf(c)' <=> \E r \in Range(reported') :
                     r.file = Head(todo') /\ r.error.category = c /\ r.error.line = n
<1>1. \A n : n \in ErrorsOf(c) <=> \E r \in Range(reported) :
               r.file = Head(todo) /\ r.error.category = c /\ r.error.line = n
  BY DEF ErrorsOf
<1>2. ErrorsOf(c)' = {r.error.line : r \in {q \in Range(reported') : q.file = Head(todo') /\ q.error.category = c}}
  BY DEF ErrorsOf
<1>3. \A n : n \in ErrorsOf(c)' <=> \E r \in Range(reported') :
               r.file = Head(todo') /\ r.error.category = c /\ r.error.line = n
  BY <1>2
<1> QED
  BY <1>1, <1>3

\* A file begins with its first line, outside any block.
LEMMA FileBegins ==
  ASSUME Inv, ProcessFileData
  PROVE  /\ ReportInv' /\ LineInv' /\ NolintInv' /\ LetThroughInv' /\ SearchedInv'
         /\ OfThisFile
         /\ Once => \A c \in Watched : ErrorsOf(c)' = {}
<1> DEFINE path    == Head(todo)
           removed == RemoveMultiLineComments(File.lines)
           sup     == ProcessGlobalSuppresions(File.lines)
           late    == IF removed.unclosed = 0 THEN <<>>
                      ELSE <<Err(removed.unclosed + 1, MultilineComment, 5)>>
           first   == CheckForCopyright(File.lines)
           errors  == first \o late
<1>1. /\ Error(errors, sup) /\ clean_lines' = CleansedLines(removed.lines)
      /\ linenum' = 1 /\ nesting_state' = NestingState /\ suppressions' = sup
      /\ job' = job /\ todo' = todo /\ path \in DOMAIN job.disk
      /\ pc = "open"
  BY Zenon DEF ProcessFileData, Readable
<1>2. File.lines \in Seq(Line)
  BY <1>1, FileIsTyped DEF Inv
<1>3. removed.lines \in Seq(Line) /\ removed.lines = RawOf(path) /\ Len(RawOf(path)) \in Nat
  <2>1. removed.lines \in Seq(Line)
    BY <1>2, RemovedType
  <2>2. removed.lines = RawOf(path)
    BY DEF RawOf, TextOf, File
  <2> QED
    BY <2>1, <2>2, LenProperties
<1>4. late = <<>> \/ late = <<Err(removed.unclosed + 1, MultilineComment, 5)>>
  BY Zenon
<1>5. sup = NotesUpTo(path, 0)
  <2>1. NotesUpTo(path, 0) = ProcessGlobalSuppresions(TextOf(path))
    BY NotesOfNextLine
  <2> QED
    BY <2>1 DEF TextOf, File
<1> HIDE DEF removed, sup, late, first
<1>6. IsReport(first, 0) /\ IsAside(first, 0)
  BY CopyrightIsReport DEF first, IsAside
<1>7. IsList(late) /\ \A e \in Range(late) : e.category = MultilineComment
  <2>1. Range(<<>>) = {}
    BY EmptySeq DEF Range
  <2>2. \A x : Range(<<x>>) = {x}
    <3> TAKE x
    <3>1. DOMAIN <<x>> = {1} /\ <<x>>[1] = x
      OBVIOUS
    <3> QED
      BY <3>1 DEF Range
  <2>3. Err(removed.unclosed + 1, MultilineComment, 5).category = MultilineComment
    BY DEF Err
  <2> QED
    BY <1>4, <2>1, <2>2, <2>3, ShortLists
<1>8. IsList(errors) /\ Range(errors) = Range(first) \cup Range(late)
  BY <1>6, <1>7, ListConcat, ListRange DEF IsReport
<1> HIDE DEF errors
<1>9. \A e \in Range(errors) : e.line = 0 \/ e.category = MultilineComment
  BY <1>6, <1>7, <1>8 DEF IsReport
<1>10. /\ ReportInv' /\ LetThroughInv' /\ OfThisFile
       /\ \A r \in Range(reported') : r \in Range(reported) \/ \E e \in Range(errors) : r = Shown(e)
  <2>1. \A n \in 1..Len(RawOf(path)) : n # 0
    OBVIOUS
  <2>2. \A e \in Range(errors) :
          (e.line \in 1..Len(RawOf(Head(todo))) /\ e.category # MultilineComment
             /\ Silenced(Head(todo), e.line, e.category))
            => IsErrorSuppressedByNolint(sup, e.category, e.line)
    BY <1>9, <2>1
  <2> QED
    BY <1>1, <1>8, <2>2, ErrorsPass DEF OfThisFile, Shown
<1>11. /\ clean_lines'.raw = removed.lines
       /\ clean_lines'.elided \in Seq(Line) /\ Len(clean_lines'.elided) = Len(removed.lines)
       /\ clean_lines'.lines \in Seq(Line) /\ Len(clean_lines'.lines) = Len(removed.lines)
  BY <1>1, <1>3, CleansedLinesType
<1>12. IsList(clean_lines'.raw)
  BY <1>3, <1>11, SeqIsList
<1>13. IsNesting(nesting_state', IsCalm')
  <2>1. ASSUME NEW calm PROVE IsNesting(NestingState, calm)
    <3>1. IsStack(<<>>, calm) /\ IsList(<<>>) /\ Len(<<>>) = 0
      BY NewBlocks, ShortLists, EmptySeq
    <3> QED
      BY <3>1, NestingIs DEF NestingState
  <2> QED
    BY <1>1, <2>1
<1>14. LineInv'
  BY <1>1, <1>11, <1>12, <1>13 DEF LineInv, Line, IsNesting, IsList, IsStack, IsSound, IsBlock, IsCheckpoint
<1>15. NolintInv'
  <2>1. /\ RawOf(path)' = RawOf(path) /\ NotesUpTo(path, 0)' = NotesUpTo(path, 0)
        /\ path' = path /\ linenum' - 1 = 0
    BY <1>1, SayingsStay
  <2> HIDE DEF path
  <2>2. /\ clean_lines'.raw = RawOf(path)' /\ linenum' <= Len(clean_lines'.raw) + 1
        /\ suppressions' = NotesUpTo(path, 0)'
    BY <1>1, <1>3, <1>5, <1>11, <2>1
  <2> QED
    BY <2>1, <2>2 DEF NolintInv, path
<1>16. SearchedInv'
  BY <1>1 DEF SearchedInv
<1>17. ASSUME Once, NEW c \in Watched PROVE ErrorsOf(c)' = {}
  <2>1. todo \in Seq(Paths) /\ todo # <<>>
    BY <1>1 DEF Inv, ConfigInv, OneFile
  <2>2. 1 \in DOMAIN todo /\ todo[1] = Head(todo)
    BY <2>1, HeadTailProperties, LenProperties, EmptySeq
  <2>3. \A r \in Range(reported) : r.file # Head(todo)
    BY <1>1, <1>17, <2>2 DEF Inv, OnceInv
  <2>4. \A e \in Range(errors) : e.category \notin Watched
    BY <1>6, <1>7, <1>8, OtherCategories DEF IsAside
  <2>5. \A e : Shown(e).error = e
    BY DEF Shown
  <2>6. \A r \in Range(reported') : ~(r.file = Head(todo') /\ r.error.category = c)
    BY <1>1, <1>10, <1>17, <2>3, <2>4, <2>5
  <2>7. \A n : n \notin ErrorsOf(c)'
    BY <2>6, ErrorsAre
  <2> DEFINE errs == ErrorsOf(c)'
  <2> HIDE DEF errs
  <2>8. errs = {}
    BY <2>7 DEF errs
  <2> QED
    BY <2>8 DEF errs
<1> QED
  BY <1>10, <1>14, <1>15, <1>16, <1>17

\* What is reported of a line.
LEMMA LineIsChecked ==
  ASSUME Inv, ProcessLine
  PROVE  /\ ReportInv' /\ LineInv' /\ NolintInv' /\ LetThroughInv' /\ SearchedInv'
         /\ OfThisFile
         /\ IsCalm => ErrorsGrow /\ OthersAreOld /\ StatesFollow
<1> DEFINE path     == Head(todo)
           raw      == clean_lines.raw[linenum]
           sup      == suppressions \cup ParseNolintSuppressions(raw, linenum)
           nesting  == Update(nesting_state, clean_lines, linenum)
           length   == CheckForFunctionLengths(function_state, clean_lines.lines, linenum, File.indented)
           language == CheckLanguage(include_state, clean_lines, linenum)
           s        == nesting.nesting
           asm      == InAsmBlock(s.stack)
           indent   == CheckForNamespaceIndentation(s, clean_lines.elided, linenum, File.indented)
           before   == UnknownNolint(raw, linenum) \o nesting.errors \o indent
           multi    == CheckForMultilineCommentsAndStrings(clean_lines.elided[linenum], linenum)
           style    == CheckStyle(s, clean_lines, linenum)
           after    == length.errors \o multi \o style \o language.errors
           rest     == IF asm THEN <<>> ELSE after
           errors   == before \o rest
<1>1. /\ Error(errors, sup) /\ nesting_state' = s /\ linenum' = linenum + 1 /\ suppressions' = sup
      /\ job' = job /\ todo' = todo /\ clean_lines' = clean_lines
      /\ pc = "lines" /\ linenum <= Len(clean_lines.raw)
      /\ function_state' = IF asm THEN function_state ELSE length.state
      /\ include_state' = IF asm THEN include_state ELSE language.state
  BY Zenon DEF ProcessLine, CheckedLine
<1>2. /\ path \in DOMAIN job.disk /\ linenum \in Nat \ {0}
      /\ IsList(clean_lines.raw)
      /\ clean_lines.elided \in Seq(Line) /\ Len(clean_lines.elided) = Len(clean_lines.raw)
      /\ clean_lines.lines \in Seq(Line) /\ Len(clean_lines.lines) = Len(clean_lines.raw)
      /\ IsNesting(nesting_state, IsCalm)
  BY <1>1 DEF Inv, LineInv, Line
<1>3. /\ clean_lines.raw = RawOf(path)
      /\ suppressions = NotesUpTo(path, linenum - 1)
  BY <1>1 DEF Inv, NolintInv
<1>4. /\ linenum \in 1..Len(clean_lines.elided)
      /\ linenum \in DOMAIN clean_lines.elided
      /\ linenum \in 0..Len(RawOf(path)) /\ linenum \in 1..linenum
      /\ Len(RawOf(path)) \in Nat
  BY <1>1, <1>2, <1>3, LenProperties
<1>5. clean_lines.elided[linenum] \in Line
  BY <1>2, <1>4, ElementOfSeq
<1>6. IsCalm => ~Has(clean_lines.elided[linenum], "asm")
  BY <1>4 DEF IsCalm, Lines, Elided
<1>7. IsNesting(s, IsCalm) /\ IsAside(nesting.errors, linenum)
  <2> DEFINE calm == IsCalm
  <2> HIDE DEF calm
  <2>1. IsNesting(s, calm) /\ IsAside(nesting.errors, linenum)
    BY <1>2, <1>4, <1>6, UpdateKeeps DEF calm
  <2> QED
    BY <2>1 DEF calm
<1>8. IsCalm => ~asm
  <2>1. IsStack(s.stack, IsCalm)
    BY <1>7 DEF IsNesting
  <2>2. s.stack # <<>> => IsSound(Last(s.stack), IsCalm)
    <3> DEFINE calm == IsCalm
    <3> HIDE DEF calm, s
    <3>1. s.stack # <<>> => IsSound(Last(s.stack), calm)
      BY <2>1, StackLast DEF calm
    <3> QED
      BY <3>1 DEF calm
  <2> QED
    BY <2>2, Zenon DEF InAsmBlock, IsSound
<1>9. sup = NotesUpTo(path, linenum)
  BY <1>2, <1>3, NotesOfNextLine
<1>27. IsCalm => StatesFollow
  <2> HIDE DEF asm
  <2>1. IsCalm => function_state' = length.state /\ include_state' = language.state
    BY <1>1, <1>8
  <2> QED
    BY <2>1 DEF StatesFollow
<1> HIDE DEF raw, sup, nesting
<1>10. IsAside(UnknownNolint(raw, linenum) \o nesting.errors, linenum) /\ IsAside(indent, linenum)
  BY <1>7, NolintIsReport, AsideConcat, IndentationIsReport
<1>11. IsReport(length.errors, linenum) /\ IsAside(multi, linenum) /\ IsAside(style, linenum)
  BY LengthIsReport, MultilineIsReport, StyleIsReport
<1>12. /\ IsReport(language.errors, linenum)
       /\ ~IsInclude(clean_lines.elided[linenum]) =>
            language.errors = OffencesIn(clean_lines.elided[linenum], linenum)
  BY <1>5, LanguageIsReport
<1> HIDE DEF length, language, s, indent, multi, style
<1>13. IsAside(before, linenum)
  BY <1>10, AsideConcat
<1>14. /\ IsReport(length.errors \o multi \o style, linenum)
       /\ Range(length.errors \o multi \o style) = Range(length.errors) \cup Range(multi) \cup Range(style)
  <2>1. IsReport(length.errors \o multi, linenum)
    BY <1>11, ReportConcat DEF IsAside
  <2>2. IsReport(length.errors \o multi \o style, linenum)
    BY <1>11, <2>1, ReportConcat DEF IsAside
  <2>3. Range(length.errors \o multi) = Range(length.errors) \cup Range(multi)
    BY <1>11, ListRange DEF IsReport, IsAside
  <2>4. Range(length.errors \o multi \o style) = Range(length.errors \o multi) \cup Range(style)
    BY <1>11, <2>1, ListRange DEF IsReport, IsAside
  <2> QED
    BY <2>2, <2>3, <2>4
<1>15. /\ IsReport(after, linenum) /\ Range(language.errors) \subseteq Range(after)
       /\ Range(after) = Range(length.errors) \cup Range(multi) \cup Range(style) \cup Range(language.errors)
  <2>1. IsReport(after, linenum)
    BY <1>12, <1>14, ReportConcat
  <2>2. Range(after) = Range(length.errors \o multi \o style) \cup Range(language.errors)
    BY <1>12, <1>14, ListRange DEF IsReport
  <2> HIDE DEF after
  <2> QED
    BY <1>14, <2>1, <2>2
<1> HIDE DEF before, after, asm
<1>16. IsReport(rest, linenum) /\ (~asm => rest = after)
  BY <1>15, ShortReports
<1> HIDE DEF rest
<1>17. /\ IsReport(errors, linenum) /\ Range(rest) \subseteq Range(errors)
       /\ Range(errors) = Range(before) \cup Range(rest)
  <2>1. IsReport(errors, linenum)
    BY <1>13, <1>16, ReportConcat DEF IsAside
  <2>2. Range(errors) = Range(before) \cup Range(rest)
    BY <1>13, <1>16, ListRange DEF IsReport, IsAside
  <2> HIDE DEF errors
  <2> QED
    BY <2>1, <2>2
<1> HIDE DEF errors
<1>18. \A c : IsErrorSuppressedByNolint(sup, c, linenum) <=> Silenced(path, linenum, c)
  BY <1>2, <1>4, <1>9, NotesAreRead DEF Inv
<1>19. IsList(errors) /\ \A e \in Range(errors) : e.line = linenum
  BY <1>17 DEF IsReport
<1>20. /\ ReportInv' /\ LetThroughInv'
       /\ \A r \in Range(reported) : r \in Range(reported')
       /\ \A e \in Range(errors) :
            ~IsErrorSuppressedByNolint(sup, e.category, e.line)
              /\ AdmittedIn(path, e.category, e.confidence)
            => Shown(e) \in Range(reported')
       /\ \A r \in Range(reported') :
            r \in Range(reported)
            \/ \E e \in Range(errors) :
                 /\ r = Shown(e) /\ ~IsErrorSuppressedByNolint(sup, e.category, e.line)
                 /\ AdmittedIn(path, e.category, e.confidence)
  <2>1. \A e \in Range(errors) :
          (e.line \in 1..Len(RawOf(Head(todo))) /\ e.category # MultilineComment
             /\ Silenced(Head(todo), e.line, e.category))
            => IsErrorSuppressedByNolint(sup, e.category, e.line)
    BY <1>18, <1>19
  <2>2. pc \in {"open", "lines"}
    BY <1>1
  <2> QED
    BY <1>1, <1>19, <2>1, <2>2, ErrorsPass
<1>21. IsCalm' = IsCalm /\ \A n : Elided(n)' = Elided(n)
  BY <1>1 DEF IsCalm, Lines, Elided
<1>22. LineInv'
  <2>1. IsNesting(nesting_state', IsCalm')
    BY <1>1, <1>7, <1>21
  <2>2. IsNesting(nesting_state, IsCalm)'
    BY <2>1 DEF IsNesting, IsStack, IsList, IsSound, IsBlock, IsCheckpoint
  <2> QED
    BY <1>1, <1>2, <2>2 DEF LineInv, Line, IsList
<1>23. NolintInv'
  <2>1. RawOf(path)' = RawOf(path) /\ path' = path /\ (linenum - 1)' = linenum
    BY <1>1, <1>2, SayingsStay
  <2>2. NotesUpTo(path, linenum - 1)' = NotesUpTo(path, linenum)
    <3>1. \A p, m : NotesUpTo(p, m)' = NotesUpTo(p, m)
      BY <1>1, SayingsStay
    <3> QED
      BY <2>1, <3>1 DEF NotesUpTo
  <2>3. linenum' <= Len(clean_lines'.raw) + 1
    BY <1>1, <1>2, <1>3, <1>4
  <2> HIDE DEF path
  <2> QED
    BY <1>1, <1>3, <1>9, <2>1, <2>2, <2>3 DEF NolintInv, path
<1>24. SearchedInv'
  <2> SUFFICES ASSUME IsCalm, NEW n \in 1..linenum, NEW t \in DOMAIN Offences, IsOffence(n, t)
               PROVE  IsAnswered(n, t)'
    <3>1. (linenum - 1)' = linenum
      BY <1>1, <1>2
    <3>2. \A n, t : IsOffence(n, t)' <=> IsOffence(n, t)
      BY <1>21 DEF IsOffence
    <3> QED
      BY <1>21, <3>1, <3>2 DEF SearchedInv
  <2> DEFINE offence == Offences[t]
             e == Err(n, offence.category, offence.confidence)
  <2>0. e.line = n /\ e.category = offence.category /\ e.confidence = offence.confidence
    BY DEF Err
  <2>1. /\ OffenceIsReported(n, t) <=> Shown(e) \in Range(reported)
        /\ OffenceIsReported(n, t)' <=> Shown(e) \in Range(reported')
    BY <1>1 DEF OffenceIsReported, Shown
  <2>2. /\ Silenced(path, n, offence.category)' <=> Silenced(path, n, offence.category)
        /\ Admitted(offence.category, offence.confidence)'
             <=> AdmittedIn(path, offence.category, offence.confidence)
        /\ Admitted(offence.category, offence.confidence)
             <=> AdmittedIn(path, offence.category, offence.confidence)
        /\ path' = path
    BY <1>1, SayingsStay DEF Admitted
  <2>3. \/ Shown(e) \in Range(reported')
        \/ Silenced(path, n, offence.category)
        \/ ~AdmittedIn(path, offence.category, offence.confidence)
    <3>1. CASE n = linenum
      <4>1. e \in Range(OffencesIn(clean_lines.elided[linenum], linenum))
        BY <1>5, <3>1, OffencesIsReport DEF IsOffence, Elided
      <4>2. OffencesIn(clean_lines.elided[linenum], linenum) = language.errors
        BY <1>12, <3>1 DEF IsOffence, Elided
      <4> HIDE DEF e, offence
      <4>3. e \in Range(errors)
        BY <1>8, <1>15, <1>16, <1>17, <4>1, <4>2
      <4>4. IsErrorSuppressedByNolint(sup, e.category, e.line) <=> Silenced(path, n, offence.category)
        BY <1>18, <2>0, <3>1
      <4> QED
        BY <1>20, <2>0, <4>3, <4>4
    <3>2. CASE n # linenum
      <4>1. n \in 1..(linenum - 1)
        BY <1>2, <3>2
      <4>2. IsAnswered(n, t)
        BY <1>1, <4>1 DEF Inv, SearchedInv
      <4> QED
        BY <1>20, <2>1, <2>2, <4>2 DEF IsAnswered, Passes
    <3> QED
      BY <3>1, <3>2
  <2> HIDE DEF e
  <2> QED
    BY <2>1, <2>2, <2>3 DEF IsAnswered, Passes
<1>25. OfThisFile
  BY <1>20 DEF OfThisFile, Shown
<1>26. ASSUME IsCalm PROVE ErrorsGrow /\ OthersAreOld
  <2>1. LineErrors = Range(length.errors) \cup Range(language.errors)
    BY DEF LineErrors, length, language
  <2>2. ASSUME NEW e, e.category \in Watched
        PROVE  e \in Range(errors) <=> e \in LineErrors
    BY <1>8, <1>11, <1>13, <1>15, <1>16, <1>17, <1>26, <2>1, <2>2 DEF IsAside
  <2>3. \A e \in LineErrors : e.line = linenum
    BY <1>11, <1>12, <2>1 DEF IsReport
  <2>4. \A e : Shown(e).file = path /\ Shown(e).error = e
    BY DEF Shown
  <2>5. \A c, x : Passes(linenum, c, x) <=> ~IsErrorSuppressedByNolint(sup, c, linenum) /\ AdmittedIn(path, c, x)
    BY <1>18 DEF Passes, Admitted
  <2>6. ASSUME NEW c \in Watched
        PROVE  ErrorsOf(c)' = ErrorsOf(c) \cup {n \in {linenum} : \E e \in LineErrors :
                                                  e.category = c /\ Passes(linenum, c, e.confidence)}
    <3> DEFINE new == {n \in {linenum} : \E e \in LineErrors :
                         e.category = c /\ Passes(linenum, c, e.confidence)}
               errs == ErrorsOf(c)'
    <3>1. \A n : n \in errs <=> \E r \in Range(reported') : r.file = path /\ r.error.category = c /\ r.error.line = n
      BY <1>1, ErrorsAre
    <3>2. \A n : n \in ErrorsOf(c) <=> \E r \in Range(reported) : r.file = path /\ r.error.category = c /\ r.error.line = n
      BY ErrorsAre
    <3> HIDE DEF errs, path
    <3>3. ASSUME NEW r \in Range(reported'), r.file = path, r.error.category = c
          PROVE  r.error.line \in ErrorsOf(c) \cup new
      <4>1. CASE r \in Range(reported)
        BY <3>2, <3>3, <4>1
      <4>2. CASE r \notin Range(reported)
        <5>1. PICK e \in Range(errors) : /\ r = Shown(e) /\ ~IsErrorSuppressedByNolint(sup, e.category, e.line)
                                        /\ AdmittedIn(path, e.category, e.confidence)
          BY <1>20, <4>2
        <5>2. r.error = e /\ e.category = c
          BY <2>4, <3>3, <5>1
        <5>3. e \in LineErrors /\ e.line = linenum
          BY <2>2, <2>3, <5>2
        <5> QED
          BY <2>5, <5>1, <5>2, <5>3
      <4> QED
        BY <4>1, <4>2
    <3>4. ErrorsOf(c) \subseteq errs
      BY <1>20, <3>1, <3>2
    <3>5. ASSUME NEW e \in LineErrors, e.category = c, Passes(linenum, c, e.confidence)
          PROVE  linenum \in errs
      <4>1. e \in Range(errors) /\ e.line = linenum
        BY <2>2, <2>3, <3>5
      <4>2. Shown(e) \in Range(reported')
        BY <1>20, <2>5, <3>5, <4>1
      <4> QED
        BY <2>4, <3>1, <3>5, <4>1, <4>2
    <3>6. errs = ErrorsOf(c) \cup new
      <4>1. \A n \in errs : n \in ErrorsOf(c) \cup new
        BY <3>1, <3>3
      <4>2. \A n \in new : n \in errs
        BY <3>5
      <4> HIDE DEF new
      <4> QED
        BY <3>4, <4>1, <4>2
    <3> QED
      BY <3>6 DEF errs
  <2>7. ASSUME NEW r \in Range(reported'), r.error.category \in Watched, r \notin Range(reported)
        PROVE  r.error \in LineErrors
    <3>1. PICK e \in Range(errors) : r = Shown(e)
      BY <1>20, <2>7
    <3> QED
      BY <2>2, <2>4, <2>7, <3>1
  <2> QED
    BY <2>6, <2>7 DEF ErrorsGrow, OthersAreOld
<1> QED
  BY <1>20, <1>22, <1>23, <1>24, <1>25, <1>26, <1>27

\* And of the end of the file.
LEMMA FileEnds ==
  ASSUME Inv, EndOfFile
  PROVE  /\ ReportInv' /\ LineInv' /\ NolintInv' /\ LetThroughInv' /\ SearchedInv'
         /\ OfThisFile
<1> DEFINE path   == Head(todo)
           errors == CheckCompletedBlocks(nesting_state.stack) \o MixedEndings
<1>1. /\ Error(errors, suppressions) /\ job' = job /\ pc = "lines" /\ pc' = "restore"
      /\ linenum > Len(clean_lines.raw)
  BY Zenon DEF EndOfFile
<1>2. path \in DOMAIN job.disk /\ IsNesting(nesting_state, IsCalm) /\ linenum \in Nat
  BY <1>1 DEF Inv, LineInv
<1>3. /\ clean_lines.raw = RawOf(path) /\ linenum <= Len(clean_lines.raw) + 1
      /\ suppressions = NotesUpTo(path, linenum - 1)
  BY <1>1 DEF Inv, NolintInv
<1>4. Len(RawOf(path)) \in Nat
  BY <1>2, RawIsTyped DEF Inv
<1>5. suppressions = NotesUpTo(path, Len(RawOf(path)))
  <2>1. linenum - 1 = Len(RawOf(path))
    BY <1>1, <1>2, <1>3, <1>4
  <2> QED
    BY <1>3, <2>1
<1>6. Len(File.lines) \in Nat
  BY <1>2, FileIsTyped DEF Inv
<1>7. IsList(nesting_state.stack)
  BY <1>2 DEF IsNesting, IsStack
<1>8. IsList(errors)
  BY <1>6, <1>7, CompletedIsList, EndingsAreList, ListConcat
<1> HIDE DEF errors
<1>9. \A e \in Range(errors) :
        (e.line \in 1..Len(RawOf(Head(todo))) /\ e.category # MultilineComment
           /\ Silenced(Head(todo), e.line, e.category))
          => IsErrorSuppressedByNolint(suppressions, e.category, e.line)
  <2>1. Len(RawOf(path)) \in 0..Len(RawOf(path))
    BY <1>4
  <2>2. \A n \in 1..Len(RawOf(path)) : \A c :
          IsErrorSuppressedByNolint(suppressions, c, n) <=> Silenced(path, n, c)
    BY <1>2, <1>5, <2>1, NotesAreRead DEF Inv
  <2> QED
    BY <2>2
<1>10. ReportInv' /\ LetThroughInv' /\ OfThisFile
  <2>1. pc \in {"open", "lines"}
    BY <1>1
  <2> QED
    BY <1>1, <1>8, <1>9, <2>1, ErrorsPass DEF OfThisFile, Shown
<1> QED
  BY <1>1, <1>10 DEF LineInv, NolintInv, SearchedInv

\* No other step reports anything or reads lines.
LEMMA OthersReportNothing ==
  ASSUME Inv, [Next]_vars, ~ProcessFileData, ~ProcessLine, ~EndOfFile
  PROVE  /\ ReportInv' /\ LineInv' /\ NolintInv' /\ LetThroughInv' /\ SearchedInv'
         /\ OfThisFile
<1>1. job' = job /\ UNCHANGED counts
  BY DEF Next, vars, ParseArguments, BadArguments, BackupFilters, ProcessConfigOverrides, AddFilters,
         BadFilter, SkipInput, IgnoreFile, RestoreFilters, Finish, Exited
<1>2. ReportInv' /\ OfThisFile
  BY <1>1, CountsStay DEF Inv, ReportInv, OfThisFile, counts, IsList
<1>3. LetThroughInv'
  <2>1. reported' = reported
    BY <1>1 DEF counts
  <2> QED
    BY <1>1, <2>1, SayingsStay DEF Inv, LetThroughInv
<1>4. \/ pc' # "lines"
      \/ pc' = pc /\ UNCHANGED <<job, todo, text, reported>>
  BY <1>1 DEF Next, vars, ParseArguments, BadArguments, BackupFilters, ProcessConfigOverrides, AddFilters,
         BadFilter, SkipInput, IgnoreFile, RestoreFilters, Finish, Exited, Die, Inv, ConfigInv, counts
<1>5. CASE pc' # "lines"
  BY <1>2, <1>3, <1>5 DEF LineInv, NolintInv, SearchedInv
<1>6. CASE pc' = pc /\ UNCHANGED <<job, todo, text, reported>>
  <2>1. /\ UNCHANGED <<pc, job, todo, reported, clean_lines, linenum, nesting_state, suppressions>>
    BY <1>6 DEF text
  <2>2. LineInv'
    BY <2>1 DEF Inv, LineInv, IsNesting, IsList, IsStack, IsSound, IsBlock, IsCheckpoint, IsCalm, Lines, Elided
  <2>3. NolintInv'
    BY <2>1 DEF Inv, NolintInv, NotesUpTo, RawOf, TextOf
  <2>4. SearchedInv'
    <3>1. \A n, t : IsOffence(n, t)' <=> IsOffence(n, t)
      BY <2>1 DEF IsOffence, Elided
    <3>2. IsCalm' <=> IsCalm
      BY <2>1 DEF IsCalm, Lines, Elided
    <3>3. \A n, t : OffenceIsReported(n, t)' <=> OffenceIsReported(n, t)
      BY <2>1 DEF OffenceIsReported
    <3>4. \A n, t : IsAnswered(n, t)' <=> IsAnswered(n, t)
      BY <2>1, <3>3, SayingsStay DEF IsAnswered, Passes, Admitted
    <3> QED
      BY <2>1, <3>1, <3>2, <3>4 DEF Inv, SearchedInv
  <2> QED
    BY <1>2, <1>3, <2>2, <2>3, <2>4
<1> QED
  BY <1>4, <1>5, <1>6

\* Every step: the configuration follows the search.
LEMMA NextConfig == Inv /\ [Next]_vars => ConfigInv'
<1> SUFFICES ASSUME Inv, [Next]_vars PROVE ConfigInv'
  OBVIOUS
<1>1. CASE UNCHANGED vars \/ Exited
  <2>1. UNCHANGED <<job, todo, pc, settings, filters, filters_backup, at, cfg_filters>>
    BY <1>1 DEF vars, config, search, Exited
  <2>2. pc = "config" => (\E i \in Outermost(Head(todo))..Len(Head(todo).dir) : SearchIsAt(i))'
    BY <2>1, SearchComesTo DEF Inv, ConfigInv, SearchIsAt
  <2>3. /\ GivenFilters' = GivenFilters
        /\ FiltersAbove(Head(todo))' = FiltersAbove(Head(todo))
    BY <2>1, FileStays
  <2> QED
    BY <2>1, <2>2, <2>3 DEF Inv, ConfigInv, OneFile
<1> QED
  BY <1>1, ArgumentsStep, BackupStep, OverridesStep, FiltersStep, RestoreStep, FileStep, EndStep
     DEF Next

\* The filters of the command line and of the configuration have their signs when they
\* are used.
LEMMA SignsAreChecked ==
  ASSUME Inv, [Next]_vars
  PROVE  SignInv'
<1> DEFINE Given == pc \in {"next"} \cup OneFile => WellFormed(GivenFilters)
           Kept  == /\ pc = "next" => WellFormed(filters)
                    /\ pc \in OneFile => WellFormed(filters_backup)
           Own   == pc \in {"open", "lines"} => IsList(filters) /\ WellFormed(filters)
<1>1. job' = job /\ GivenFilters' = GivenFilters
  <2>1. job' = job
    BY DEF Next, vars, ParseArguments, BadArguments, BackupFilters, ProcessConfigOverrides, AddFilters,
           BadFilter, SkipInput, IgnoreFile, ProcessFileData, ProcessLine, EndOfFile, RestoreFilters,
           Finish, Exited
  <2> QED
    BY <2>1, GivenStay
<1>2. Given
  BY DEF Inv, SignInv, ConfigInv, OneFile
<1>3. Given'
  <2>1. ASSUME ParseArguments PROVE Given'
    <3>1. WellFormed(GivenFilters)
      BY <2>1, GivenAreFilters DEF ParseArguments, Inv
    <3> QED
      BY <1>1, <3>1 DEF WellFormed
  <2>2. ASSUME ~ParseArguments PROVE Given'
    <3>1. pc' \in {"next"} \cup OneFile => pc \in {"next"} \cup OneFile
      BY <2>2 DEF Next, vars, BadArguments, BackupFilters, ProcessConfigOverrides, AddFilters,
           BadFilter, SkipInput, IgnoreFile, ProcessFileData, ProcessLine, EndOfFile, RestoreFilters,
           Finish, Exited, Die, OneFile
    <3> QED
      BY <1>1, <1>2, <3>1 DEF WellFormed, OneFile
  <2> QED
    BY <2>1, <2>2
<1>4. Kept'
  <2>1. ConfigInv'
    BY NextConfig
  <2>2. /\ pc' = "next" => filters' = GivenFilters'
        /\ pc' \in OneFile => filters_backup' = GivenFilters'
    BY <2>1 DEF ConfigInv, OneFile
  <2> QED
    BY <1>3, <2>2 DEF WellFormed, OneFile
<1>5. Own'
  <2>1. ASSUME AddFilters PROVE Own'
    <3>1. /\ filters' = filters \o LastFirst(cfg_filters) /\ filters = GivenFilters
          /\ WellFormed(GivenFilters) /\ cfg_filters \in Seq(FilterLists)
          /\ \A i \in DOMAIN cfg_filters : WellFormed(cfg_filters[i])
      BY <1>2, <2>1 DEF AddFilters, Inv, ConfigInv, OneFile
    <3>2. IsList(filters') /\ WellFormed(filters')
      BY <3>1, LastFirstSigned, GivenAreFilters, SignsStay DEF Inv
    <3> QED
      BY <3>2 DEF IsList, WellFormed
  <2>2. ASSUME ~AddFilters PROVE Own'
    <3>1. \/ pc' \notin {"open", "lines"}
          \/ pc \in {"open", "lines"} /\ filters' = filters
      BY <2>2 DEF Next, vars, config, ParseArguments, BadArguments, BackupFilters, ProcessConfigOverrides,
           BadFilter, SkipInput, IgnoreFile, ProcessFileData, ProcessLine, EndOfFile, RestoreFilters,
           Finish, Exited, Die
    <3> QED
      BY <3>1 DEF Inv, SignInv, IsList, WellFormed
  <2> QED
    BY <2>1, <2>2
<1> QED
  BY <1>4, <1>5 DEF SignInv

\* The exit status: nothing but a bad filter ends the program while files are left.
LEMMA StatusStep ==
  ASSUME Inv, [Next]_vars, ReportInv'
  PROVE  StatusTellsReport'
<1> DEFINE Told == pc = "exit" /\ todo = <<>> /\ job.args.names # <<>> /\ WellFormed(job.args.filters)
                     => (status = 1 <=> reported # <<>>)
           IsCounted == job.args.counting # "total" =>
                       \A c \in {Counted(r.error.category) : r \in Range(reported)} :
                         errors_by_category[c] =
                           Cardinality({i \in DOMAIN reported : Counted(reported[i].error.category) = c})
<1>1. ASSUME Finish PROVE Told'
  <2>1. /\ job' = job /\ todo' = todo /\ reported' = reported
        /\ status' = IF error_count > 0 THEN 1 ELSE 0
    BY <1>1 DEF Finish, counts
  <2>2. error_count = Len(reported) /\ IsList(reported)
    BY DEF Inv, ReportInv
  <2>3. Len(reported) \in Nat /\ (Len(reported) = 0 <=> reported = <<>>)
    BY <2>2, ListFacts, EmptySeq
  <2> QED
    BY <2>1, <2>2, <2>3
<1>2. ASSUME UNCHANGED vars \/ Exited PROVE Told'
  <2>1. UNCHANGED <<job, pc, todo, status, reported>>
    BY <1>2 DEF Exited, vars, counts
  <2> QED
    BY <2>1 DEF Inv, StatusTellsReport, WellFormed
<1>3. ASSUME BadArguments PROVE Told'
  <2>1. job' = job /\ (job.args.names = <<>> \/ ~WellFormed(job.args.filters))
    BY <1>3 DEF BadArguments
  <2> QED
    BY <2>1 DEF WellFormed
<1>4. ASSUME BadFilter PROVE Told'
  <2>1. todo' = todo /\ todo # <<>>
    BY <1>4 DEF BadFilter, Inv, ConfigInv, OneFile
  <2> QED
    BY <2>1
<1>5. ASSUME \/ ParseArguments \/ BackupFilters \/ ProcessConfigOverrides \/ AddFilters
             \/ SkipInput \/ IgnoreFile \/ ProcessFileData \/ ProcessLine \/ EndOfFile \/ RestoreFilters
      PROVE  Told'
  <2>1. pc' # "exit"
    BY <1>5 DEF ParseArguments, BackupFilters, ProcessConfigOverrides, AddFilters, SkipInput, IgnoreFile,
         ProcessFileData, ProcessLine, EndOfFile, RestoreFilters
  <2> QED
    BY <2>1
<1>6. Told'
  BY <1>1, <1>2, <1>3, <1>4, <1>5 DEF Next
<1>7. IsCounted'
  BY DEF ReportInv, CountsOf
<1> QED
  BY <1>6, <1>7 DEF StatusTellsReport

\* The blocks follow the braces from line to line.
LEMMA BlocksFollow ==
  ASSUME Inv, [Next]_vars, LineInv'
  PROVE  BlockInv'
<1> DEFINE elided == clean_lines'.elided
           stack  == nesting_state'.stack
           Quiet  == /\ \A n \in DOMAIN elided : Directive(elided[n]) = NONE
                     /\ HeadsAreComplete(elided) /\ NoneEndsAhead(elided)
           Follow == Follows(elided, stack, OpenBraces(elided)[linenum' - 1], <<linenum', 0>>)
<1>1. CASE ProcessFileData
  <2>1. pc' = "lines" /\ linenum' = 1 /\ nesting_state' = NestingState
    BY <1>1 DEF ProcessFileData
  <2>2. elided \in Seq(Line)
    BY <2>1 DEF LineInv, Line
  <2>3. OpenBraces(elided)[0] = 0
    BY <2>2, OpenBracesUnfolds
  <2>4. stack = <<>>
    BY <2>1 DEF NestingState
  <2>5. SeenOpenBrace(<<>>) /\ IsList(<<>>) /\ DOMAIN <<>> = {} /\ Len(<<>>) = 0
    BY ShortLists, EmptySeq DEF SeenOpenBrace
  <2> HIDE DEF elided, stack
  <2>6. Follows(elided, stack, OpenBraces(elided)[linenum' - 1], <<linenum', 0>>)
    BY <2>1, <2>3, <2>4, <2>5 DEF Follows
  <2> QED
    BY <2>6, BlocksPass DEF elided, stack
<1>2. CASE ProcessLine
  <2>1. /\ nesting_state' = Update(nesting_state, clean_lines, linenum).nesting /\ linenum' = linenum + 1
        /\ clean_lines' = clean_lines /\ pc = "lines" /\ linenum <= Len(clean_lines.raw)
    BY <1>2, Zenon DEF ProcessLine, CheckedLine
  <2>2. /\ clean_lines.elided \in Seq(Line) /\ linenum \in 1..Len(clean_lines.elided)
        /\ IsNesting(nesting_state, IsCalm) /\ DOMAIN clean_lines.elided = 1..Len(clean_lines.elided)
    BY <2>1, LenProperties DEF Inv, LineInv, Line
  <2>3. ASSUME Quiet PROVE Follow
    <3>1. /\ IsFile(clean_lines.elided, linenum) /\ Directive(clean_lines.elided[linenum]) = NONE
          /\ ~Conditional
      BY <2>1, <2>2, <2>3 DEF IsFile, Conditional, Lines, Elided
    <3>2. Follows(clean_lines.elided, nesting_state.stack, OpenBraces(clean_lines.elided)[linenum - 1],
                  <<linenum, 0>>)
      BY <2>1, <3>1 DEF Inv, BlockInv, IsFile
    <3> DEFINE calm == IsCalm
    <3> HIDE DEF calm
    <3>3. IsNesting(nesting_state, calm)
      BY <2>2 DEF calm
    <3>4. Follows(clean_lines.elided, Update(nesting_state, clean_lines, linenum).nesting.stack,
                  OpenBraces(clean_lines.elided)[linenum], <<linenum + 1, 0>>)
      BY <3>1, <3>2, <3>3, LineFollows
    <3>5. linenum' - 1 = linenum
      BY <2>1, <2>2
    <3> QED
      BY <2>1, <3>4, <3>5
  <2> HIDE DEF Quiet, Follow
  <2>4. Quiet => Follow
    BY <2>3
  <2> QED
    BY <2>4, BlocksPass DEF Quiet, Follow
<1>3. CASE ~ProcessFileData /\ ~ProcessLine
  <2>1. \/ pc' # "lines"
        \/ pc' = pc /\ UNCHANGED text
    BY <1>3 DEF Next, vars, ParseArguments, BadArguments, BackupFilters, ProcessConfigOverrides, AddFilters,
         BadFilter, SkipInput, IgnoreFile, EndOfFile, RestoreFilters, Finish, Exited, Die
  <2>2. CASE pc' # "lines"
    BY <2>2 DEF BlockInv
  <2>3. CASE pc' = pc /\ UNCHANGED text
    <3>1. pc' = pc /\ UNCHANGED <<clean_lines, linenum, nesting_state>>
      BY <2>3 DEF text
    <3>2. Quiet /\ pc = "lines" => Follow
      BY <3>1 DEF Inv, BlockInv, Conditional, Lines, Elided
    <3> HIDE DEF Quiet, Follow
    <3>3. Quiet /\ pc' = "lines" => Follow
      BY <3>1, <3>2
    <3> QED
      BY <3>3, BlocksPass DEF Quiet, Follow
  <2> QED
    BY <2>1, <2>2, <2>3
<1> QED
  BY <1>1, <1>2, <1>3

\* A stack of blocks of which n are open below the top.
LEMMA OpenBlocksAre ==
  ASSUME NEW stack, IsOpenBelow(stack)
  PROVE  OpenBlocks(stack) = IF SeenOpenBrace(stack) THEN Len(stack) ELSE Len(stack) - 1
<1> DEFINE n == IF SeenOpenBrace(stack) THEN Len(stack) ELSE Len(stack) - 1
           open == {i \in DOMAIN stack : stack[i].open}
<1>1. Len(stack) \in Nat /\ DOMAIN stack = 1..Len(stack) /\ (stack # <<>> => Len(stack) \in Nat \ {0})
  BY ListFacts DEF IsOpenBelow
<1>2. stack = <<>> => Len(stack) = 0
  BY EmptySeq
<1>3. stack # <<>> => Last(stack) = stack[Len(stack)]
  BY DEF Last
<1>4. SeenOpenBrace(stack) <=> stack = <<>> \/ stack[Len(stack)].open
  BY <1>3 DEF SeenOpenBrace
<1>5. \A i \in 1..Len(stack) : stack[i].open \/ i = Len(stack)
  BY <1>1 DEF IsOpenBelow
<1>6. n \in Nat
  BY <1>1, <1>2, <1>4
<1>7. open = 1..n
  <2> DEFINE m == Len(stack)
  <2>1. m \in Nat /\ DOMAIN stack = 1..m
    BY <1>1
  <2>2. \A i \in 1..m : stack[i].open \/ i = m
    BY <1>5
  <2>3. CASE SeenOpenBrace(stack)
    <3>1. n = m /\ (stack = <<>> => m = 0) /\ (stack # <<>> => stack[m].open)
      BY <1>2, <1>4, <2>3
    <3> HIDE DEF m, n
    <3>2. \A i \in 1..m : stack[i].open
      BY <2>1, <2>2, <3>1
    <3> QED
      BY <2>1, <3>1, <3>2
  <2>4. CASE ~SeenOpenBrace(stack)
    <3>1. n = m - 1 /\ ~stack[m].open
      BY <1>4, <2>4
    <3> HIDE DEF m, n
    <3>2. \A i \in 1..m : stack[i].open <=> i \in 1..n
      BY <2>1, <2>2, <3>1
    <3>3. \A i \in 1..n : i \in 1..m
      BY <2>1, <3>1
    <3> QED
      BY <2>1, <3>2, <3>3
  <2> QED
    BY <2>3, <2>4
<1> HIDE DEF n
<1>8. Cardinality(1..n) = n
  BY <1>6, FS_Interval
<1> QED
  BY <1>7, <1>8 DEF OpenBlocks, n

\* What is read of a file that is named once has not been read before.
LEMMA OnceStep ==
  ASSUME Inv, [Next]_vars
  PROVE  OnceInv'
<1> DEFINE Apart(files, r, at_it) ==
             \A i \in DOMAIN files : r.file = files[i] => i = 1 /\ at_it
<1>1. job' = job /\ (Once' <=> Once)
  <2>1. job' = job
    BY DEF Next, vars, ParseArguments, BadArguments, BackupFilters, ProcessConfigOverrides, AddFilters,
           BadFilter, SkipInput, IgnoreFile, ProcessFileData, ProcessLine, EndOfFile, RestoreFilters,
           Finish, Exited
  <2> QED
    BY <2>1 DEF Once, IsInjective
<1>2. SUFFICES /\ pc' = "arguments" => reported' = <<>>
               /\ Once => /\ IsInjective(todo')
                          /\ \A r \in Range(reported') : Apart(todo', r, pc' \in {"lines", "restore"})
  BY <1>1 DEF OnceInv, IsInjective
<1>3. /\ todo \in Seq(Paths) /\ DOMAIN todo = 1..Len(todo) /\ Len(todo) \in Nat
      /\ todo # <<>> => 1 \in DOMAIN todo /\ todo[1] = Head(todo)
  BY LenProperties, HeadTailProperties, EmptySeq DEF Inv, ConfigInv
<1>4. /\ pc = "arguments" => reported = <<>>
      /\ Once => /\ IsInjective(todo)
                 /\ \A r \in Range(reported) : Apart(todo, r, pc \in {"lines", "restore"})
  BY DEF Inv, OnceInv
<1>5. CASE ParseArguments
  <2>1. reported' = <<>> /\ pc' = "next"
    BY <1>4, <1>5 DEF ParseArguments, counts
  <2>2. Range(reported') = {}
    BY <2>1, EmptySeq DEF Range
  <2> QED
    BY <1>5, <2>1, <2>2, ArgumentsStep
<1>6. CASE RestoreFilters
  <2>1. /\ pc = "restore" /\ pc' = "next" /\ todo' = Tail(todo) /\ reported' = reported /\ todo # <<>>
    BY <1>6 DEF RestoreFilters, counts, Inv, ConfigInv, OneFile
  <2>2. /\ DOMAIN todo' = 1..(Len(todo) - 1)
        /\ \A i \in 1..(Len(todo) - 1) : todo'[i] = todo[i + 1]
    BY <1>3, <2>1, HeadTailProperties, LenProperties
  <2>3. \A i \in DOMAIN todo' : i + 1 \in DOMAIN todo /\ i + 1 # 1 /\ i \in Nat
    BY <1>3, <2>2
  <2>4. ASSUME Once PROVE IsInjective(todo')
    <3>1. \A a, b \in DOMAIN todo : todo[a] = todo[b] => a = b
      BY <1>4, <2>4 DEF IsInjective
    <3>2. \A a, b \in DOMAIN todo' : todo'[a] = todo'[b] => a + 1 = b + 1
      BY <2>2, <2>3, <3>1
    <3> QED
      BY <2>3, <3>2 DEF IsInjective
  <2>5. ASSUME Once, NEW r \in Range(reported'), NEW i \in DOMAIN todo' PROVE r.file # todo'[i]
    BY <1>4, <2>1, <2>2, <2>3, <2>5
  <2> QED
    BY <2>1, <2>4, <2>5
<1>7. CASE ProcessFileData \/ ProcessLine \/ EndOfFile
  <2>1. /\ pc' \in {"lines", "restore"} /\ todo' = todo /\ todo # <<>>
    BY <1>7 DEF ProcessFileData, ProcessLine, EndOfFile, Inv, ConfigInv, OneFile
  <2>2. \A r \in Range(reported') : r \in Range(reported) \/ r.file = Head(todo)
    BY <1>7, FileBegins, LineIsChecked, FileEnds DEF OfThisFile
  <2>3. ASSUME Once, NEW r \in Range(reported') PROVE Apart(todo', r, TRUE)
    <3>1. CASE r \in Range(reported)
      BY <1>4, <2>1, <2>3, <3>1
    <3>2. CASE r.file = Head(todo)
      BY <1>3, <1>4, <2>1, <2>3, <3>2 DEF IsInjective
    <3> QED
      BY <2>2, <3>1, <3>2
  <2> QED
    BY <1>4, <2>1, <2>3
<1>8. CASE ~(ParseArguments \/ RestoreFilters \/ ProcessFileData \/ ProcessLine \/ EndOfFile)
  <2>1. /\ todo' = todo /\ reported' = reported
        /\ pc \in {"lines", "restore"} => pc' \in {"lines", "restore"}
        /\ pc' = "arguments" => pc = "arguments"
    BY <1>8 DEF Next, vars, counts, BadArguments, BackupFilters, ProcessConfigOverrides, AddFilters,
         BadFilter, SkipInput, IgnoreFile, Finish, Exited, Die
  <2> QED
    BY <1>4, <2>1
<1> QED
  BY <1>5, <1>6, <1>7, <1>8

-----------------------------------------------------------------------------
(* The length of functions.                                                *)
\* The lines of a file whose functions are looked at, and one of them.
IsCode(n) == clean_lines.lines \in Seq(Line) /\ Len(clean_lines.elided) = Len(clean_lines.lines)
               /\ DOMAIN clean_lines.elided = 1..Len(clean_lines.elided) /\ n \in Lines

\* What there is to know of it.
LEMMA CodeIs ==
  ASSUME NEW n, IsCode(n)
  PROVE  /\ Len(clean_lines.lines) \in Nat /\ Lines = 1..Len(clean_lines.lines)
         /\ n \in 1..Len(clean_lines.lines) /\ LineOf(n) \in Line
         /\ DOMAIN LineOf(n) = 1..Len(LineOf(n)) /\ Len(LineOf(n)) \in Nat
<1>1. /\ Len(clean_lines.lines) \in Nat /\ Lines = 1..Len(clean_lines.lines)
      /\ n \in 1..Len(clean_lines.lines) /\ LineOf(n) \in Line
  BY LenProperties, ElementOfSeq DEF IsCode, Lines, LineOf
<1> QED
  BY <1>1, LenProperties DEF Line

\* The first line that tells whether there is a body.
LEMMA TellingIs ==
  ASSUME NEW n, IsCode(n)
  PROVE  LET t == Telling(clean_lines.lines, n)
         IN  \/ t = 0 /\ \A k \in n..Len(clean_lines.lines) : ~Tells(k)
             \/ /\ t \in n..Len(clean_lines.lines) /\ t # 0 /\ Tells(t)
                /\ \A k \in n..(t - 1) : ~Tells(k)
<1> DEFINE N == Len(clean_lines.lines)
           Test(l) == \E i \in DOMAIN l : l[i] \in {";", "}", "{"}
           I == {k \in n..N : Test(clean_lines.lines[k])}
           t == Telling(clean_lines.lines, n)
<1>1. N \in Nat /\ n \in 1..N
  BY CodeIs
<1>2. \A k : Test(clean_lines.lines[k]) <=> Tells(k)
  BY Zenon DEF Tells, LineOf, Has
<1>3. t = IF I # {} THEN Min(I) ELSE 0
  BY Zenon DEF Telling, SelectInSubSeq
<1> HIDE DEF Test, N, t
<1>4. \A k \in n..N : k \in I <=> Tells(k)
  BY <1>2
<1>5. I \in SUBSET Nat
  BY <1>1
<1>6. CASE I = {}
  BY <1>3, <1>4, <1>6 DEF N, t
<1>7. CASE I # {}
  <2>1. t \in I /\ \A k \in I : t <= k
    BY <1>3, <1>5, <1>7, MinOfNaturals
  <2>2. t \in n..N
    BY <2>1
  <2> HIDE DEF I
  <2>3. \A k \in n..(t - 1) : k \in n..N /\ ~(t <= k)
    BY <1>1, <2>2
  <2>4. t # 0
    BY <1>1, <2>2
  <2> QED
    BY <1>4, <2>1, <2>2, <2>3, <2>4 DEF N, t
<1> QED
  BY <1>6, <1>7

\* A line without a semicolon and a closing brace.
GoesOn(n) == ~Has(LineOf(n), ";") /\ ~Has(LineOf(n), "}")

\* So a head begins a function, or is unfinished, as that line tells.
LEMMA BeginsAs ==
  ASSUME NEW n, IsCode(n)
  PROVE  LET t == Telling(clean_lines.lines, n)
         IN  /\ Begins(n) <=> Heads(n) /\ t # 0 /\ GoesOn(t)
             /\ IsUnfinished(n) <=> Heads(n) /\ t = 0
<1> DEFINE N == Len(clean_lines.lines)
           t == Telling(clean_lines.lines, n)
<1>1. N \in Nat /\ n \in 1..N
  BY CodeIs
<1>2. \/ t = 0 /\ \A k \in n..N : ~Tells(k)
      \/ t \in n..N /\ t # 0 /\ Tells(t) /\ \A k \in n..(t - 1) : ~Tells(k)
  BY TellingIs
<1>3. Begins(n) <=> Heads(n) /\ \E u \in n..N : Tells(u) /\ GoesOn(u) /\ \A k \in n..(u - 1) : ~Tells(k)
  BY Zenon DEF Begins, GoesOn
<1>4. IsUnfinished(n) <=> Heads(n) /\ \A k \in n..N : ~Tells(k)
  BY Zenon DEF IsUnfinished
<1> HIDE DEF N, t
<1>5. IsUnfinished(n) <=> Heads(n) /\ t = 0
  BY <1>2, <1>4
<1>6. ASSUME NEW u \in n..N, Tells(u), \A k \in n..(u - 1) : ~Tells(k)
      PROVE  t # 0 /\ u = t
  <2>1. t \in n..N /\ t # 0 /\ Tells(t) /\ \A k \in n..(t - 1) : ~Tells(k)
    BY <1>2, <1>6
  <2>2. ~(u < t) /\ ~(t < u)
    BY <1>1, <1>6, <2>1
  <2> QED
    BY <1>1, <1>6, <2>1, <2>2
<1>7. Begins(n) <=> Heads(n) /\ t # 0 /\ GoesOn(t)
  BY <1>2, <1>3, <1>6
<1> QED
  BY <1>5, <1>7 DEF t

\* A line with one token has no call in it.
LEMMA EndIsNoHead ==
  ASSUME NEW n, IsCode(n), Ends(n)
  PROVE  ~Heads(n) /\ LineOf(n) # <<>>
<1> DEFINE line == LineOf(n)
           x == "}"
           k == Find(line, {"("})
<1>1. line = <<x>>
  BY Zenon DEF Ends
<1>2. line \in Line
  BY CodeIs
<1>3. StartsFunction(line) => k > 1
  BY Zenon DEF StartsFunction
<1>4. k \in 0..Len(line)
  BY <1>2, FindType
<1> HIDE DEF x, k, line
<1>5. Len(line) = 1
  BY <1>1
<1>6. ~StartsFunction(line) /\ line # <<>>
  BY <1>1, <1>3, <1>4, <1>5
<1> QED
  BY <1>6 DEF Heads, line

\* What a line is for the function it stands in: the state behind it, and its errors.
LEMMA FunctionCases ==
  ASSUME NEW n, IsCode(n), NEW f
  PROVE  LET r == CheckForFunctionLengths(f, clean_lines.lines, n, File.indented)
             more == [f EXCEPT !.lines_in_function = @ + (IF f.in_a_function THEN 1 ELSE 0)]
         IN  /\ IsUnfinished(n) => r = [state |-> f, errors |-> <<Err(n, FnSize, 5)>>]
             /\ Begins(n) => r = [state |-> Begin(LineOf(n)), errors |-> <<>>]
             /\ Ends(n) => r = [state |-> [f EXCEPT !.in_a_function = FALSE], errors |-> CheckLength(f, n)]
             /\ ~Heads(n) /\ ~Ends(n) /\ LineOf(n) # <<>> => r = [state |-> more, errors |-> <<>>]
             /\ ~Begins(n) /\ ~IsUnfinished(n) /\ ~Ends(n) /\ (Heads(n) \/ LineOf(n) = <<>>)
                  => r = [state |-> f, errors |-> <<>>]
<1> DEFINE t    == Telling(clean_lines.lines, n)
           head == StartsFunction(LineOf(n)) /\ n \notin File.indented
           body == t # 0 /\ ~Has(LineOf(t), ";") /\ ~Has(LineOf(t), "}")
           end  == LineOf(n) = <<"}">> /\ n \notin File.indented
           other == LineOf(n) # <<"}">> \/ n \in File.indented
           blank == IsBlankLine(LineOf(n))
           more == [f EXCEPT !.lines_in_function = @ + (IF f.in_a_function THEN 1 ELSE 0)]
           A == [state |-> f, errors |-> <<Err(n, FnSize, 5)>>]
           B == [state |-> Begin(LineOf(n)), errors |-> <<>>]
           C == [state |-> [f EXCEPT !.in_a_function = FALSE], errors |-> CheckLength(f, n)]
           D == [state |-> more, errors |-> <<>>]
           E == [state |-> f, errors |-> <<>>]
           r == CheckForFunctionLengths(f, clean_lines.lines, n, File.indented)
<1>1. r = CASE head /\ t = 0 -> A [] head /\ body -> B [] ~head /\ (LineOf(n) = <<"}">>) /\ n \notin File.indented -> C
            [] ~head /\ ~blank /\ other -> D [] OTHER -> E
  BY Zenon DEF CheckForFunctionLengths, LineOf
<1>2. /\ head <=> Heads(n)
      /\ end <=> Ends(n)
      /\ other <=> ~Ends(n)
      /\ blank <=> LineOf(n) = <<>>
      /\ body <=> t # 0 /\ GoesOn(t)
  BY Zenon DEF Heads, Ends, GoesOn, IsBlankLine
<1>3. /\ Begins(n) <=> Heads(n) /\ t # 0 /\ GoesOn(t)
      /\ IsUnfinished(n) <=> Heads(n) /\ t = 0
  BY BeginsAs
<1>4. Ends(n) => ~Heads(n) /\ LineOf(n) # <<>>
  BY EndIsNoHead
<1>5. r = CASE head /\ t = 0 -> A [] head /\ body -> B [] ~head /\ end -> C
            [] ~head /\ ~blank /\ other -> D [] OTHER -> E
  BY <1>1, Zenon
<1> HIDE DEF t, head, body, end, other, blank, r, A, B, C, D, E
<1>6. /\ IsUnfinished(n) => r = A
      /\ Begins(n) => r = B
      /\ Ends(n) => r = C
      /\ ~Heads(n) /\ ~Ends(n) /\ LineOf(n) # <<>> => r = D
      /\ ~Begins(n) /\ ~IsUnfinished(n) /\ ~Ends(n) /\ (Heads(n) \/ LineOf(n) = <<>>) => r = E
  BY <1>2, <1>3, <1>4, <1>5
<1> QED
  BY <1>6, Zenon DEF r, A, B, C, D, E

\* The function that is open behind a line: it begins there, or was open before.
LEMMA OpenNext ==
  ASSUME NEW n, IsCode(n), NEW s \in Lines
  PROVE  /\ IsOpenFrom(s, n + 1) <=> (s = n /\ Begins(n)) \/ (IsOpenFrom(s, n) /\ ~Ends(n) /\ ~Begins(n))
         /\ IsOpenFrom(s, n) => s < n
<1>1. n \in Nat /\ s \in Nat
  BY CodeIs
<1>2. CASE s < n
  <2>1. \A k \in (s + 1)..n : k = n \/ k \in (s + 1)..(n - 1)
    BY <1>1
  <2>2. n \in (s + 1)..n /\ \A k \in (s + 1)..(n - 1) : k \in (s + 1)..n
    BY <1>1, <1>2
  <2>3. (n + 1) - 1 = n /\ s < n + 1 /\ s # n
    BY <1>1, <1>2
  <2>4. IsOpenFrom(s, n + 1) <=> Begins(s) /\ \A k \in (s + 1)..n : ~Ends(k) /\ ~Begins(k)
    BY <2>3 DEF IsOpenFrom
  <2> QED
    BY <1>2, <2>1, <2>2, <2>3, <2>4 DEF IsOpenFrom
<1>3. CASE s = n
  <2>1. \A k : k \notin (s + 1)..((n + 1) - 1)
    BY <1>1, <1>3
  <2> QED
    BY <1>1, <1>3, <2>1 DEF IsOpenFrom
<1>4. CASE n < s
  <2>1. ~(s < n + 1) /\ ~(s < n) /\ s # n
    BY <1>1, <1>4
  <2> QED
    BY <2>1 DEF IsOpenFrom
<1> QED
  BY <1>1, <1>2, <1>3, <1>4 DEF IsOpenFrom

\* The lines of a function grow by the lines that count.
LEMMA BodyNext ==
  ASSUME NEW n, IsCode(n), NEW s \in Lines
  PROVE  /\ Cardinality(Body(s, n)) \in Nat
         /\ Cardinality(Body(n, n + 1)) = 0
         /\ s < n => Cardinality(Body(s, n + 1)) =
                       Cardinality(Body(s, n)) + (IF LineOf(n) # <<>> /\ ~Heads(n) THEN 1 ELSE 0)
<1>1. n \in Nat /\ s \in Nat
  BY CodeIs
<1>2. IsFiniteSet(Body(s, n)) /\ n \notin Body(s, n)
  <2>1. IsFiniteSet((s + 1)..(n - 1))
    BY <1>1, FS_Interval
  <2>2. Body(s, n) \subseteq (s + 1)..(n - 1)
    BY DEF Body
  <2> QED
    BY <1>1, <2>1, <2>2, FS_Subset
<1>3. Cardinality(Body(s, n)) \in Nat
  BY <1>2, FS_CardinalityType
<1>4. Cardinality(Body(n, n + 1)) = 0
  <2>1. Body(n, n + 1) = {}
    BY <1>1 DEF Body
  <2> QED
    BY <2>1, FS_EmptySet
<1>5. ASSUME s < n
      PROVE  Cardinality(Body(s, n + 1)) =
               Cardinality(Body(s, n)) + (IF LineOf(n) # <<>> /\ ~Heads(n) THEN 1 ELSE 0)
  <2>1. \A k : k \in (s + 1)..((n + 1) - 1) <=> k = n \/ k \in (s + 1)..(n - 1)
    BY <1>1, <1>5
  <2>2. Body(s, n + 1) = IF LineOf(n) # <<>> /\ ~Heads(n) THEN Body(s, n) \cup {n} ELSE Body(s, n)
    BY <2>1 DEF Body
  <2>3. Cardinality(Body(s, n) \cup {n}) = Cardinality(Body(s, n)) + 1
    BY <1>2, FS_AddElement
  <2> QED
    BY <1>3, <2>2, <2>3
<1> QED
  BY <1>3, <1>4, <1>5

\* A test is what the name before the parenthesis says.
LEMMA TestIs ==
  ASSUME NEW n, IsCode(n), Heads(n)
  PROVE  Begin(LineOf(n)).test <=> IsTest(n)
<1> DEFINE line == LineOf(n)
           p == "("
           test == "TEST"
           k == Find(line, {p})
<1>1. line \in Line /\ DOMAIN line = 1..Len(line) /\ Len(line) \in Nat
  BY CodeIs
<1>2. k > 1
  BY Zenon DEF Heads, StartsFunction
<1>3. Begin(line).test <=> line[k - 1] = test
  BY DEF Begin
<1>4. IsTest(n) <=> \E i \in DOMAIN line : i > 1 /\ line[i] = p /\ line[i - 1] = test
                                            /\ \A j \in 1..(i - 1) : line[j] # p
  BY Zenon DEF IsTest
<1> HIDE DEF p, test, line
<1>5. k \in 1..Len(line) /\ line[k] = p
  BY <1>1, <1>2, FindType
<1>6. \A i \in 1..Len(line) : i < k => line[i] # p
  BY <1>1, <1>2, FindIsFirst
<1> HIDE DEF k
<1>7. \A j \in 1..(k - 1) : line[j] # p
  BY <1>1, <1>5, <1>6
<1>8. ASSUME NEW i \in DOMAIN line, line[i] = p, \A j \in 1..(i - 1) : line[j] # p PROVE i = k
  <2>1. ~(k < i) /\ ~(i < k)
    BY <1>1, <1>5, <1>6, <1>8
  <2> QED
    BY <1>1, <1>5, <2>1
<1> QED
  BY <1>1, <1>2, <1>3, <1>4, <1>5, <1>7, <1>8 DEF line

\* A power of two is a number.
LEMMA PowerIsNatural ==
  ASSUME NEW n \in Nat
  PROVE  2^n \in Nat
<1>1. IsFiniteSet(1..n) /\ Cardinality(1..n) = n
  BY FS_Interval
<1>2. Cardinality(SUBSET (1..n)) = 2^n /\ IsFiniteSet(SUBSET (1..n))
  BY <1>1, FS_SUBSET
<1> QED
  BY <1>2, FS_CardinalityType

\* A function is reported at a level that passes the verbosity when the highest does.
LEMMA LevelPasses ==
  ASSUME NEW n, NEW f, f.lines_in_function \in Nat, WellTyped(job)
  PROVE  LET base == IF f.test THEN TestTrigger ELSE NormalTrigger
             over == f.in_a_function /\ f.lines_in_function > base * 2^job.args.verbose
             errors == CheckLength(f, n)
         IN  /\ \A e \in Range(errors) : /\ e.category = FnSize /\ e.line = n
                                         /\ f.in_a_function /\ IsLevel(e.confidence, f.lines_in_function, base)
             /\ (\E e \in Range(errors) : Passes(n, FnSize, e.confidence)) <=> over /\ Passes(n, FnSize, 5)
<1> DEFINE base == IF f.test THEN TestTrigger ELSE NormalTrigger
           lines == f.lines_in_function
           v == job.args.verbose
           over == f.in_a_function /\ lines > base * 2^v
           Reached(k) == base * 2^k <= lines
           T == {k \in 0..5 : k = 0 \/ Reached(k)}
           errors == CheckLength(f, n)
           e == Err(n, FnSize, Max(T))
<1>1. errors = IF over THEN <<e>> ELSE <<>>
  BY Zenon DEF CheckLength
<1>2. v \in Nat
  BY DEF WellTyped, Arguments
<1>3. over => Reached(v)
  <2>1. base \in Nat
    BY TriggersAssumption
  <2> DEFINE power == 2^v
  <2>2. power \in Nat
    BY <1>2, PowerIsNatural
  <2> HIDE DEF power, base, lines
  <2>3. lines > base * power => base * power <= lines
    <3>1. lines \in Nat
      BY DEF lines
    <3> QED
      BY <2>1, <2>2, <3>1
  <2> QED
    BY <2>3, Zenon DEF power
<1>4. e.category = FnSize /\ e.confidence = Max(T) /\ e.line = n
  BY DEF Err
<1>10. \A k \in 0..5 : base * 2^k \in Nat
  <2>1. base \in Nat
    BY TriggersAssumption
  <2> HIDE DEF base
  <2> SUFFICES ASSUME NEW k \in 0..5 PROVE base * 2^k \in Nat
    OBVIOUS
  <2> DEFINE power == 2^k
  <2>2. power \in Nat
    BY PowerIsNatural
  <2> HIDE DEF power
  <2>3. base * power \in Nat
    BY <2>1, <2>2
  <2> QED
    BY <2>3 DEF power
<1>11. over => f.in_a_function
  OBVIOUS
<1> HIDE DEF over, errors, v
<1>5. T \in SUBSET (0..5) /\ T # {}
  <2>1. 0 \in T
    OBVIOUS
  <2> QED
    BY <2>1
<1>6. Max(T) \in T /\ \A k \in T : k <= Max(T)
  BY <1>5, MaxUpTo
<1>7. over => (Max(T) >= v <=> 5 >= v)
  <2>1. CASE v <= 5
    <3>1. over => v \in T
      BY <1>2, <1>3, <2>1
    <3> HIDE DEF T
    <3>2. over => v <= Max(T)
      BY <1>6, <3>1
    <3> QED
      BY <1>2, <1>5, <1>6, <2>1, <3>2
  <2>2. CASE ~(v <= 5)
    <3>1. Max(T) \in 0..5
      BY <1>5, <1>6
    <3> HIDE DEF T
    <3> QED
      BY <1>2, <2>2, <3>1
  <2> QED
    BY <2>1, <2>2
<1>12. IsLevel(Max(T), lines, base)
  <2> DEFINE m == Max(T)
             product(k) == base * 2^k
  <2>1. m \in 0..5 /\ (m > 0 => product(m) <= lines)
    BY <1>6
  <2>2. m < 5 => m + 1 \in 0..5 /\ m + 1 \notin T
    BY <1>6
  <2>3. m < 5 => ~(product(m + 1) <= lines)
    BY <2>1, <2>2
  <2>4. m < 5 => product(m + 1) \in Nat
    BY <1>10, <2>2
  <2> HIDE DEF T, m, product
  <2>5. m < 5 => lines < product(m + 1)
    BY <2>3, <2>4
  <2> QED
    BY <2>1, <2>5 DEF IsLevel, m, product
<1> HIDE DEF T
<1>8. over => (Passes(n, FnSize, Max(T)) <=> Passes(n, FnSize, 5))
  BY <1>7, Zenon DEF Passes, Admitted, AdmittedIn, v
<1> HIDE DEF e, Reached
<1>9. Range(errors) = IF over THEN {e} ELSE {}
  BY <1>1, ShortRanges
<1>13. \A x \in Range(errors) : /\ x.category = FnSize /\ x.line = n
                                /\ f.in_a_function /\ IsLevel(x.confidence, lines, base)
  BY <1>4, <1>9, <1>11, <1>12
<1>14. (\E x \in Range(errors) : Passes(n, FnSize, x.confidence)) <=> over /\ Passes(n, FnSize, 5)
  BY <1>4, <1>8, <1>9
<1> QED
  BY <1>13, <1>14 DEF over, v, errors

\* A line is one of: a head of which nothing tells, one that begins a function, an end,
\* one that counts, or none of these.
LEMMA FunctionStays ==
  ASSUME NEW n, IsCode(n), NEW f, NEW g, IsFunctionState(f, n), ~Begins(n), ~Ends(n),
         g = [f EXCEPT !.lines_in_function =
                @ + (IF f.in_a_function /\ LineOf(n) # <<>> /\ ~Heads(n) THEN 1 ELSE 0)]
  PROVE  IsFunctionState(g, n + 1)
<1> DEFINE more == IF LineOf(n) # <<>> /\ ~Heads(n) THEN 1 ELSE 0
           counted == IF f.in_a_function /\ LineOf(n) # <<>> /\ ~Heads(n) THEN 1 ELSE 0
<1>1. /\ f = [in_a_function |-> f.in_a_function, lines_in_function |-> f.lines_in_function, test |-> f.test]
      /\ f.lines_in_function \in Nat
      /\ f.in_a_function <=> \E s \in Lines : IsOpenFrom(s, n)
      /\ \A s \in Lines : IsOpenFrom(s, n) =>
           f.lines_in_function = Cardinality(Body(s, n)) /\ (f.test <=> IsTest(s))
  BY DEF IsFunctionState
<1>2. /\ g = [in_a_function |-> g.in_a_function, lines_in_function |-> g.lines_in_function, test |-> g.test]
      /\ g.in_a_function = f.in_a_function /\ g.test = f.test
      /\ g.lines_in_function = f.lines_in_function + counted
  BY <1>1
<1> HIDE DEF more, counted
<1>3. \A s \in Lines : (IsOpenFrom(s, n + 1) <=> IsOpenFrom(s, n))
                       /\ (IsOpenFrom(s, n) => Cardinality(Body(s, n + 1)) = Cardinality(Body(s, n)) + more)
  <2>1. \A s \in Lines : (IsOpenFrom(s, n + 1) <=> IsOpenFrom(s, n)) /\ (IsOpenFrom(s, n) => s < n)
    BY OpenNext
  <2>2. \A s \in Lines : s < n => Cardinality(Body(s, n + 1)) = Cardinality(Body(s, n)) + more
    BY BodyNext DEF more
  <2> QED
    BY <2>1, <2>2
<1>4. counted \in Nat /\ (f.in_a_function => counted = more)
  BY DEF counted, more
<1>5. g.lines_in_function \in Nat
  BY <1>1, <1>2, <1>4
<1>6. g.in_a_function <=> \E s \in Lines : IsOpenFrom(s, n + 1)
  BY <1>1, <1>2, <1>3
<1>7. ASSUME NEW s \in Lines, IsOpenFrom(s, n + 1)
      PROVE  g.lines_in_function = Cardinality(Body(s, n + 1)) /\ (g.test <=> IsTest(s))
  BY <1>1, <1>2, <1>3, <1>4, <1>7
<1> QED
  BY <1>2, <1>5, <1>6, <1>7 DEF IsFunctionState

\* The state behind a line tells of the function that is open behind it.
LEMMA FunctionFollows ==
  ASSUME NEW n, IsCode(n), NEW f, IsFunctionState(f, n)
  PROVE  IsFunctionState(CheckForFunctionLengths(f, clean_lines.lines, n, File.indented).state, n + 1)
<1> DEFINE r == CheckForFunctionLengths(f, clean_lines.lines, n, File.indented)
           g == r.state
<1> SUFFICES IsFunctionState(g, n + 1)
  OBVIOUS
<1>1. /\ f = [in_a_function |-> f.in_a_function, lines_in_function |-> f.lines_in_function, test |-> f.test]
      /\ f.lines_in_function \in Nat
  BY DEF IsFunctionState
<1>2. /\ IsUnfinished(n) => g = f
      /\ Begins(n) => g = Begin(LineOf(n))
      /\ Ends(n) => g = [f EXCEPT !.in_a_function = FALSE]
      /\ ~Heads(n) /\ ~Ends(n) /\ LineOf(n) # <<>> =>
           g = [f EXCEPT !.lines_in_function = @ + (IF f.in_a_function THEN 1 ELSE 0)]
      /\ ~Begins(n) /\ ~IsUnfinished(n) /\ ~Ends(n) /\ (Heads(n) \/ LineOf(n) = <<>>) => g = f
  <2> DEFINE more == [f EXCEPT !.lines_in_function = @ + (IF f.in_a_function THEN 1 ELSE 0)]
             begin == Begin(LineOf(n))
             end == [f EXCEPT !.in_a_function = FALSE]
  <2>1. /\ IsUnfinished(n) => r = [state |-> f, errors |-> <<Err(n, FnSize, 5)>>]
        /\ Begins(n) => r = [state |-> begin, errors |-> <<>>]
        /\ Ends(n) => r = [state |-> end, errors |-> CheckLength(f, n)]
        /\ ~Heads(n) /\ ~Ends(n) /\ LineOf(n) # <<>> => r = [state |-> more, errors |-> <<>>]
        /\ ~Begins(n) /\ ~IsUnfinished(n) /\ ~Ends(n) /\ (Heads(n) \/ LineOf(n) = <<>>)
             => r = [state |-> f, errors |-> <<>>]
    BY FunctionCases, Zenon
  <2> HIDE DEF r, more, begin, end
  <2>2. /\ IsUnfinished(n) => g = f
        /\ Begins(n) => g = begin
        /\ Ends(n) => g = end
        /\ ~Heads(n) /\ ~Ends(n) /\ LineOf(n) # <<>> => g = more
        /\ ~Begins(n) /\ ~IsUnfinished(n) /\ ~Ends(n) /\ (Heads(n) \/ LineOf(n) = <<>>) => g = f
    BY <2>1
  <2> QED
    BY <2>2 DEF more, begin, end
<1> HIDE DEF g
<1>3. /\ Begins(n) => Heads(n) /\ ~IsUnfinished(n)
      /\ IsUnfinished(n) => Heads(n)
      /\ Ends(n) => ~Heads(n)
      /\ n \in Lines
  BY BeginsAs, EndIsNoHead DEF IsCode
<1>4. CASE Begins(n)
  <2>1. g = [in_a_function |-> TRUE, lines_in_function |-> 0, test |-> Begin(LineOf(n)).test]
    BY <1>2, <1>4 DEF Begin
  <2>2. \A s \in Lines : IsOpenFrom(s, n + 1) <=> s = n
    BY <1>4, OpenNext
  <2>3. Cardinality(Body(n, n + 1)) = 0
    BY <1>3, BodyNext
  <2>4. g.test <=> IsTest(n)
    BY <1>3, <1>4, <2>1, TestIs
  <2> QED
    BY <1>3, <2>1, <2>2, <2>3, <2>4 DEF IsFunctionState
<1>5. CASE Ends(n)
  <2>1. /\ g = [in_a_function |-> g.in_a_function, lines_in_function |-> g.lines_in_function, test |-> g.test]
        /\ g.in_a_function = FALSE /\ g.lines_in_function = f.lines_in_function
    BY <1>1, <1>2, <1>5
  <2>2. \A s \in Lines : ~IsOpenFrom(s, n + 1)
    BY <1>3, <1>5, OpenNext
  <2> QED
    BY <1>1, <2>1, <2>2 DEF IsFunctionState
<1>6. CASE ~Begins(n) /\ ~Ends(n)
  <2> DEFINE h == [f EXCEPT !.lines_in_function =
                     @ + (IF f.in_a_function /\ LineOf(n) # <<>> /\ ~Heads(n) THEN 1 ELSE 0)]
  <2>1. CASE ~Heads(n) /\ LineOf(n) # <<>>
    <3>1. g = h
      BY <1>2, <1>6, <2>1
    <3> QED
      BY <1>6, <3>1, FunctionStays
  <2>2. CASE Heads(n) \/ LineOf(n) = <<>>
    <3>1. g = f
      BY <1>2, <1>6, <2>2
    <3>2. h = f
      <4>1. h.lines_in_function = f.lines_in_function
        BY <1>1, <2>2
      <4> QED
        BY <1>1, <4>1
    <3> QED
      BY <1>6, <3>1, <3>2, FunctionStays
  <2> QED
    BY <2>1, <2>2
<1> QED
  BY <1>4, <1>5, <1>6

\* What is reported of the functions at a line.
LEMMA LengthsAreReported ==
  ASSUME NEW n, IsCode(n), NEW f, IsFunctionState(f, n), WellTyped(job)
  PROVE  LET errors == CheckForFunctionLengths(f, clean_lines.lines, n, File.indented).errors
         IN  /\ \A e \in Range(errors) : e.category = FnSize /\ HasItsConfidence(e)
             /\ (\E e \in Range(errors) : Passes(n, FnSize, e.confidence))
                  <=> (IsTooLong(n) \/ IsUnfinished(n)) /\ Passes(n, FnSize, 5)
<1> DEFINE r == CheckForFunctionLengths(f, clean_lines.lines, n, File.indented)
           errors == r.errors
           Limit(test) == (IF test THEN TestTrigger ELSE NormalTrigger) * 2^job.args.verbose
           over == f.in_a_function /\ f.lines_in_function > Limit(f.test)
           e5 == Err(n, FnSize, 5)
<1>1. /\ f.lines_in_function \in Nat
      /\ f.in_a_function <=> \E s \in Lines : IsOpenFrom(s, n)
      /\ \A s \in Lines : IsOpenFrom(s, n) =>
           f.lines_in_function = Cardinality(Body(s, n)) /\ (f.test <=> IsTest(s))
  BY DEF IsFunctionState
<1>2. /\ IsUnfinished(n) => errors = <<e5>>
      /\ Ends(n) => errors = CheckLength(f, n)
      /\ ~IsUnfinished(n) /\ ~Ends(n) => errors = <<>>
  <2> DEFINE more == [f EXCEPT !.lines_in_function = @ + (IF f.in_a_function THEN 1 ELSE 0)]
             begin == Begin(LineOf(n))
             end == [f EXCEPT !.in_a_function = FALSE]
             length == CheckLength(f, n)
  <2>1. /\ IsUnfinished(n) => r = [state |-> f, errors |-> <<e5>>]
        /\ Begins(n) => r = [state |-> begin, errors |-> <<>>]
        /\ Ends(n) => r = [state |-> end, errors |-> length]
        /\ ~Heads(n) /\ ~Ends(n) /\ LineOf(n) # <<>> => r = [state |-> more, errors |-> <<>>]
        /\ ~Begins(n) /\ ~IsUnfinished(n) /\ ~Ends(n) /\ (Heads(n) \/ LineOf(n) = <<>>)
             => r = [state |-> f, errors |-> <<>>]
    BY FunctionCases, Zenon
  <2> HIDE DEF r, more, begin, end, length, e5
  <2>2. /\ IsUnfinished(n) => errors = <<e5>>
        /\ Ends(n) => errors = length
        /\ Begins(n) \/ (~IsUnfinished(n) /\ ~Ends(n)) => errors = <<>>
    BY <2>1
  <2> QED
    BY <2>2 DEF length
<1>3. IsTooLong(n) <=> Ends(n) /\ \E s \in Lines : IsOpenFrom(s, n) /\ Cardinality(Body(s, n)) > Limit(IsTest(s))
  BY Zenon DEF IsTooLong, Trigger
<1>4. LET list == CheckLength(f, n)
          base == IF f.test THEN TestTrigger ELSE NormalTrigger
      IN  /\ \A e \in Range(list) : /\ e.category = FnSize /\ e.line = n
                                    /\ f.in_a_function /\ IsLevel(e.confidence, f.lines_in_function, base)
          /\ (\E e \in Range(list) : Passes(n, FnSize, e.confidence)) <=> over /\ Passes(n, FnSize, 5)
  BY <1>1, LevelPasses, Zenon
<1>5. IsUnfinished(n) => ~Ends(n)
  BY EndIsNoHead DEF IsUnfinished
<1>6. e5.category = FnSize /\ e5.confidence = 5 /\ e5.line = n
  BY DEF Err
<1>12. \A e \in Range(CheckLength(f, n)) : Ends(n) => HasItsConfidence(e)
  <2> SUFFICES ASSUME NEW e \in Range(CheckLength(f, n)), Ends(n) PROVE HasItsConfidence(e)
    OBVIOUS
  <2>1. PICK s \in Lines : IsOpenFrom(s, n)
    BY <1>1, <1>4
  <2>2. f.lines_in_function = Cardinality(Body(s, n)) /\ (f.test <=> IsTest(s))
    BY <1>1, <2>1
  <2>3. e.line = n /\ IsLevel(e.confidence, Cardinality(Body(s, n)), Trigger(s))
    BY <1>4, <2>2 DEF Trigger
  <2> QED
    BY <2>1, <2>3 DEF HasItsConfidence
<1>13. IsUnfinished(n) => HasItsConfidence(e5)
  BY <1>6 DEF HasItsConfidence
<1>7. \A s : (f.test <=> IsTest(s)) => Limit(f.test) = Limit(IsTest(s))
  OBVIOUS
<1> HIDE DEF errors, Limit, e5
<1>8. IsTooLong(n) <=> Ends(n) /\ over
  BY <1>1, <1>3, <1>7
<1> HIDE DEF over
<1>9. CASE IsUnfinished(n)
  <2>1. Range(errors) = {e5}
    BY <1>2, <1>9, ShortRanges
  <2> QED
    BY <1>6, <1>9, <1>13, <2>1 DEF errors
<1>10. CASE Ends(n)
  BY <1>2, <1>4, <1>5, <1>8, <1>10, <1>12 DEF errors
<1>11. CASE ~IsUnfinished(n) /\ ~Ends(n)
  <2>1. Range(errors) = {}
    BY <1>2, <1>11, ShortRanges
  <2> QED
    BY <1>8, <1>11, <2>1 DEF errors
<1> QED
  BY <1>9, <1>10, <1>11

-----------------------------------------------------------------------------
(* The includes.                                                           *)
\* What is known of the header of an include line, and the section it belongs to.
Known(s, n) == FindHeader(s, HeaderAt(n).path) # 0

TypeAt(n) == _ClassifyInclude(File, HeaderAt(n), GetHeaderExtensions, GetNonHeaderExtensions)

\* An error of a category is among some.
IsTold(errors, category) == \E e \in Range(errors) : e.category = category

\* What an include line does to the state, and what it reports.
LEMMA IncludeCases ==
  ASSUME NEW n, IsInclude(Elided(n)), NEW s,
         s = [include_list |-> s.include_list, section |-> s.section, last_header |-> s.last_header]
  PROVE  LET r == CheckLanguage(s, clean_lines, n)
             list == s.include_list
             errors == r.errors
         IN  /\ Known(s, n) \/ ~Recorded(n) => r.state = s
             /\ ~Known(s, n) /\ Recorded(n) =>
                  r.state = [include_list |-> OnTop(list, Append(Last(list), <<HeaderAt(n).path, n>>)),
                             section |-> NextSection(s.section, TypeAt(n)),
                             last_header |-> HeaderAt(n).rank]
             /\ \A e \in Range(errors) : e.category # FnSize /\ (e.category \in Watched => e.confidence = 4)
             /\ IsTold(errors, BuildInclude) <=> Known(s, n) \/ Foreign(n)
             /\ IsTold(errors, IncludeOrder) <=>
                  ~Known(s, n) /\ Recorded(n) /\ OutOfOrder(s.section, TypeAt(n))
<1> DEFINE i == HeaderAt(n)
           type == TypeAt(n)
           list == s.include_list
           subdir == IF ~i.system /\ i.dir = <<>> /\ i.ext = "h" /\ ~i.third
                     THEN <<Err(n, IncludeSubdir, 4)>> ELSE <<>>
           known == FindHeader(s, i.path) # 0
           foreign == i.ext \in GetNonHeaderExtensions /\ File.dir # i.dir
           own == i.base = File.base /\ i.suffix = File.suffix /\ i.ext \in GetHeaderExtensions
                    /\ (IsSuffix(i.dir, File.dir) \/ IsSuffix(File.dir, i.dir))
           listed == [s EXCEPT !.include_list = OnTop(@, Append(Last(@), <<i.path, n>>))]
           next == CheckNextIncludeOrder(listed, type)
           order == IF next.bad THEN <<Err(n, IncludeOrder, 4)>> ELSE <<>>
           alpha == IF IsInAlphabeticalOrder(next.state, clean_lines.elided, n, i.rank) THEN <<>>
                    ELSE <<Err(n, IncludeAlpha, 4)>>
           again == [state |-> s, errors |-> subdir \o <<Err(n, BuildInclude, 4)>>]
           third == [state |-> s, errors |-> subdir]
           taken == [state |-> [next.state EXCEPT !.last_header = i.rank],
                     errors |-> subdir \o order \o alpha]
           r == CheckLanguage(s, clean_lines, n)
<1>1. r = CASE known \/ foreign -> again [] ~known /\ ~foreign /\ i.third /\ ~own -> third [] OTHER -> taken
  <2>1. r = CheckIncludeLine(s, File, clean_lines.elided, n, GetHeaderExtensions, GetNonHeaderExtensions)
    BY Zenon DEF CheckLanguage, Elided
  <2> QED
    BY <2>1, Zenon DEF CheckIncludeLine, HeaderAt, TypeAt, Elided
<1>2. subdir = <<>> \/ subdir = <<Err(n, IncludeSubdir, 4)>>
  BY Zenon
<1>3. order = IF next.bad THEN <<Err(n, IncludeOrder, 4)>> ELSE <<>>
  BY Zenon
<1>4. alpha = <<>> \/ alpha = <<Err(n, IncludeAlpha, 4)>>
  BY Zenon
<1>5. /\ known <=> Known(s, n)
      /\ foreign <=> Foreign(n)
      /\ ~foreign /\ ~(i.third /\ ~own) <=> Recorded(n)
  BY Zenon DEF Known, Foreign, Recorded, OwnHeader
<1>6. /\ next.bad <=> OutOfOrder(s.section, type)
      /\ [next.state EXCEPT !.last_header = i.rank] =
           [include_list |-> OnTop(list, Append(Last(list), <<i.path, n>>)),
            section |-> NextSection(s.section, type), last_header |-> i.rank]
  <2> DEFINE new == OnTop(list, Append(Last(list), <<i.path, n>>))
  <2>1. listed = [include_list |-> new, section |-> s.section, last_header |-> s.last_header]
    OBVIOUS
  <2> HIDE DEF listed, type, new
  <2> DEFINE section == NextSection(listed.section, type)
             bad == OutOfOrder(listed.section, type)
             head == IF bad \/ section # listed.section THEN 0 ELSE listed.last_header
  <2>2. next = [state |-> [listed EXCEPT !.section = section, !.last_header = head], bad |-> bad]
    BY DEF CheckNextIncludeOrder
  <2>3. listed.section = s.section
    BY <2>1
  <2> DEFINE st == [include_list |-> new, section |-> section, last_header |-> head]
             rank == i.rank
  <2> HIDE DEF next, section, bad, head, i, rank
  <2>5. [[listed EXCEPT !.section = section] EXCEPT !.last_header = head] = st
    <3> DEFINE b == s.section
               c == s.last_header
    <3>1. listed = [include_list |-> new, section |-> b, last_header |-> c]
      BY <2>1
    <3> DEFINE y == [listed EXCEPT !.section = section]
    <3> HIDE DEF b, c, st
    <3>2. y = [include_list |-> new, section |-> section, last_header |-> c]
      BY <3>1
    <3> HIDE DEF y
    <3>3. [y EXCEPT !.last_header = head] = st
      BY <3>2 DEF st
    <3> QED
      BY <3>3 DEF y
  <2>6. next.bad = bad /\ next.state = st
    BY <2>2, <2>5
  <2>7. [st EXCEPT !.last_header = rank] =
          [include_list |-> new, section |-> section, last_header |-> rank]
    OBVIOUS
  <2>4. /\ next.bad = bad
        /\ [next.state EXCEPT !.last_header = i.rank] =
             [include_list |-> new, section |-> section, last_header |-> i.rank]
    BY <2>6, <2>7 DEF rank
  <2> QED
    BY <2>3, <2>4 DEF section, bad, new
<1> HIDE DEF known, foreign, own, subdir, order, alpha, next, r
<1>7. r = IF Known(s, n) \/ Foreign(n) THEN again ELSE IF ~Recorded(n) THEN third ELSE taken
  BY <1>1, <1>5
<1>8. /\ IsList(subdir) /\ IsList(order) /\ IsList(alpha) /\ IsList(<<Err(n, BuildInclude, 4)>>)
      /\ Range(subdir) \subseteq {Err(n, IncludeSubdir, 4)}
      /\ Range(order) = IF next.bad THEN {Err(n, IncludeOrder, 4)} ELSE {}
      /\ Range(alpha) \subseteq {Err(n, IncludeAlpha, 4)}
      /\ Range(<<Err(n, BuildInclude, 4)>>) = {Err(n, BuildInclude, 4)}
  BY <1>2, <1>3, <1>4, ShortLists, ShortRanges
<1>9. /\ Range(subdir \o <<Err(n, BuildInclude, 4)>>) = Range(subdir) \cup {Err(n, BuildInclude, 4)}
      /\ Range(subdir \o order \o alpha) = Range(subdir) \cup Range(order) \cup Range(alpha)
  <2>1. Range(subdir \o <<Err(n, BuildInclude, 4)>>) = Range(subdir) \cup {Err(n, BuildInclude, 4)}
    BY <1>8, ListRange
  <2>2. IsList(subdir \o order) /\ Range(subdir \o order) = Range(subdir) \cup Range(order)
    BY <1>8, ListRange, ListConcat
  <2>3. Range(subdir \o order \o alpha) = Range(subdir \o order) \cup Range(alpha)
    BY <1>8, <2>2, ListRange
  <2> QED
    BY <2>1, <2>2, <2>3
<1>10. /\ again.errors = subdir \o <<Err(n, BuildInclude, 4)>> /\ again.state = s
       /\ third.errors = subdir /\ third.state = s
       /\ taken.errors = subdir \o order \o alpha
       /\ taken.state = [next.state EXCEPT !.last_header = i.rank]
  OBVIOUS
<1> HIDE DEF again, third, taken
<1>11. Foreign(n) => ~Recorded(n)
  BY DEF Recorded
<1>12. /\ Known(s, n) \/ Foreign(n) => Range(r.errors) = Range(subdir) \cup {Err(n, BuildInclude, 4)}
       /\ ~Known(s, n) /\ ~Foreign(n) /\ ~Recorded(n) => Range(r.errors) = Range(subdir)
       /\ ~Known(s, n) /\ Recorded(n) => Range(r.errors) = Range(subdir) \cup Range(order) \cup Range(alpha)
  BY <1>7, <1>9, <1>10, <1>11
<1>13. /\ IncludeSubdir \notin Watched /\ IncludeAlpha \notin Watched /\ BuildInclude # IncludeOrder
       /\ BuildInclude \in Watched /\ IncludeOrder \in Watched /\ FnSize \in Watched
       /\ BuildInclude # FnSize /\ IncludeOrder # FnSize
  BY OtherCategories DEF Watched, BuildInclude, IncludeOrder, FnSize
<1>14. \A c : Err(n, c, 4).category = c /\ Err(n, c, 4).confidence = 4
  BY DEF Err
<1>15. \A e \in Range(subdir) \cup Range(alpha) : e.category \notin Watched
  BY <1>8, <1>13, <1>14
<1> DEFINE eb == Err(n, BuildInclude, 4)
           eo == Err(n, IncludeOrder, 4)
<1>16. eb.category = BuildInclude /\ eo.category = IncludeOrder /\ eb.confidence = 4 /\ eo.confidence = 4
  BY <1>14
<1> DEFINE errors == r.errors
<1>17. /\ Known(s, n) \/ Foreign(n) => Range(errors) = Range(subdir) \cup {eb}
       /\ ~Known(s, n) /\ ~Foreign(n) /\ ~Recorded(n) => Range(errors) = Range(subdir)
       /\ ~Known(s, n) /\ Recorded(n) /\ next.bad => Range(errors) = Range(subdir) \cup {eo} \cup Range(alpha)
       /\ ~Known(s, n) /\ Recorded(n) /\ ~next.bad => Range(errors) = Range(subdir) \cup Range(alpha)
  BY <1>8, <1>12
<1> HIDE DEF eb, eo, errors, type, i, list
<1>18. /\ \A e \in Range(errors) : e.category # FnSize /\ (e.category \in Watched => e.confidence = 4)
       /\ IsTold(errors, BuildInclude) <=> Known(s, n) \/ Foreign(n)
       /\ IsTold(errors, IncludeOrder) <=> ~Known(s, n) /\ Recorded(n) /\ next.bad
  <2>1. CASE Known(s, n) \/ Foreign(n)
    BY <1>11, <1>13, <1>15, <1>16, <1>17, <2>1 DEF IsTold
  <2>2. CASE ~Known(s, n) /\ ~Foreign(n) /\ ~Recorded(n)
    BY <1>13, <1>15, <1>17, <2>2 DEF IsTold
  <2>3. CASE ~Known(s, n) /\ Recorded(n) /\ next.bad
    BY <1>11, <1>13, <1>15, <1>16, <1>17, <2>3 DEF IsTold
  <2>4. CASE ~Known(s, n) /\ Recorded(n) /\ ~next.bad
    BY <1>11, <1>13, <1>15, <1>17, <2>4 DEF IsTold
  <2> QED
    BY <2>1, <2>2, <2>3, <2>4
<1>19. /\ Known(s, n) \/ ~Recorded(n) => r.state = s
       /\ ~Known(s, n) /\ Recorded(n) => r.state = taken.state
  BY <1>7, <1>10, <1>11
<1>20. ~Known(s, n) /\ Recorded(n) =>
         r.state = [include_list |-> OnTop(list, Append(Last(list), <<i.path, n>>)),
                    section |-> NextSection(s.section, type), last_header |-> i.rank]
  BY <1>6, <1>10, <1>19
<1> QED
  BY <1>6, <1>18, <1>19, <1>20 DEF errors, type, i, list, r

-----------------------------------------------------------------------------
(* What is said of functions, line by line.                                *)
\* What a line that is no include reports is looked for elsewhere, and an include says
\* nothing of functions.
LEMMA OthersSayNothing ==
  ASSUME NEW n, Elided(n) \in Line, NEW s,
         s = [include_list |-> s.include_list, section |-> s.section, last_header |-> s.last_header]
  PROVE  LET errors == CheckLanguage(s, clean_lines, n).errors
         IN  /\ \A e \in Range(errors) : e.category # FnSize
             /\ ~IsInclude(Elided(n)) => \A e \in Range(errors) : e.category \notin Watched
<1> DEFINE errors == CheckLanguage(s, clean_lines, n).errors
<1>1. IsInclude(Elided(n)) => \A e \in Range(errors) : e.category # FnSize
  <2> SUFFICES ASSUME IsInclude(Elided(n)) PROVE \A e \in Range(errors) : e.category # FnSize
    OBVIOUS
  <2> HIDE DEF errors
  <2> QED
    BY IncludeCases DEF errors
<1>2. ~IsInclude(Elided(n)) => \A e \in Range(errors) : e.category \notin Watched
  <2>1. ~IsInclude(Elided(n)) => errors = OffencesIn(Elided(n), n)
    BY LanguageIsReport DEF Elided
  <2>2. \A e \in Range(OffencesIn(Elided(n), n)) : e.category \notin Watched
    BY OffencesIsReport DEF IsAside
  <2> HIDE DEF errors
  <2> QED
    BY <2>1, <2>2
<1> HIDE DEF errors
<1>3. FnSize \in Watched
  BY DEF Watched
<1> QED
  BY <1>1, <1>2, <1>3 DEF errors

\* While the lines stay, so does what is said of them.
LEMMA LinesStay ==
  ASSUME clean_lines' = clean_lines, job' = job, todo' = todo
  PROVE  /\ Lines' = Lines /\ (IsCalm' <=> IsCalm) /\ (Once' <=> Once)
         /\ \A n, c, x : Passes(n, c, x)' <=> Passes(n, c, x)
<1>1. Lines' = Lines /\ (IsCalm' <=> IsCalm)
  BY DEF Lines, IsCalm, Elided
<1>2. Once' <=> Once
  BY DEF Once, IsInjective
<1>3. \A n, c, x : Passes(n, c, x)' <=> Passes(n, c, x)
  BY SayingsStay DEF Passes, Admitted
<1> QED
  BY <1>1, <1>2, <1>3

\* And of their functions.
LEMMA FunctionsStay ==
  ASSUME clean_lines' = clean_lines, job' = job, todo' = todo
  PROVE  /\ \A s : (Begins(s)' <=> Begins(s)) /\ (Ends(s)' <=> Ends(s)) /\ (Heads(s)' <=> Heads(s))
         /\ \A s : (IsTest(s)' <=> IsTest(s)) /\ (IsUnfinished(s)' <=> IsUnfinished(s))
         /\ \A s, e : (IsOpenFrom(s, e)' <=> IsOpenFrom(s, e)) /\ Body(s, e)' = Body(s, e)
         /\ \A e : (IsTooLong(e)' <=> IsTooLong(e)) /\ (HasItsConfidence(e)' <=> HasItsConfidence(e))
<1>1. Lines' = Lines /\ File' = File
  BY DEF Lines, File
<1>2. \A k : LineOf(k)' = LineOf(k)
  BY DEF LineOf
<1>3. \A k : Tells(k)' <=> Tells(k)
  BY <1>2 DEF Tells
<1>4. \A s : (Ends(s)' <=> Ends(s)) /\ (Heads(s)' <=> Heads(s))
  BY <1>1, <1>2 DEF Ends, Heads
<1>5. \A s : IsTest(s)' <=> IsTest(s)
  BY <1>2 DEF IsTest
<1>6. \A s : IsUnfinished(s)' <=> IsUnfinished(s)
  BY <1>3, <1>4 DEF IsUnfinished
<1>7. \A s : Begins(s)' <=> Begins(s)
  BY <1>2, <1>3, <1>4 DEF Begins
<1>8. \A s, e : IsOpenFrom(s, e)' <=> IsOpenFrom(s, e)
  BY <1>4, <1>7 DEF IsOpenFrom
<1>9. \A s, e : Body(s, e)' = Body(s, e)
  BY <1>2, <1>4 DEF Body
<1>10. \A e : IsTooLong(e)' <=> IsTooLong(e)
  BY <1>1, <1>4, <1>5, <1>8, <1>9 DEF IsTooLong, Trigger
<1>11. \A e : HasItsConfidence(e)' <=> HasItsConfidence(e)
  BY <1>1, <1>4, <1>5, <1>6, <1>8, <1>9 DEF HasItsConfidence, Trigger, IsLevel
<1> QED
  BY <1>4, <1>5, <1>6, <1>7, <1>8, <1>9, <1>10, <1>11

\* So a state that tells of the function open before a line does so behind the step.
LEMMA FunctionStatePrimed ==
  ASSUME clean_lines' = clean_lines, job' = job, todo' = todo,
         IsFunctionState(function_state', linenum')
  PROVE  IsFunctionState(function_state, linenum)'
<1> DEFINE f == function_state'
           n == linenum'
<1>1. /\ f = [in_a_function |-> f.in_a_function, lines_in_function |-> f.lines_in_function, test |-> f.test]
      /\ f.lines_in_function \in Nat
      /\ f.in_a_function <=> \E s \in Lines : IsOpenFrom(s, n)
      /\ \A s \in Lines : IsOpenFrom(s, n) =>
           f.lines_in_function = Cardinality(Body(s, n)) /\ (f.test <=> IsTest(s))
  BY DEF IsFunctionState
<1>2. Lines' = Lines
  BY LinesStay
<1>3. \A s : (IsOpenFrom(s, linenum)' <=> IsOpenFrom(s, n)) /\ Body(s, linenum)' = Body(s, n)
  BY FunctionsStay
<1>4. \A s : IsTest(s)' <=> IsTest(s)
  BY FunctionsStay
<1> QED
  BY <1>1, <1>2, <1>3, <1>4 DEF IsFunctionState

\* The line that is read next.
LEMMA NextLine ==
  ASSUME Inv, ProcessLine
  PROVE  /\ IsCode(linenum) /\ linenum \in Nat \ {0} /\ linenum' = linenum + 1
         /\ Elided(linenum) \in Line
         /\ pc = "lines" /\ pc' = "lines" /\ clean_lines' = clean_lines /\ job' = job /\ todo' = todo
<1>1. /\ pc = "lines" /\ pc' = "lines" /\ linenum <= Len(clean_lines.raw) /\ linenum' = linenum + 1
      /\ clean_lines' = clean_lines /\ job' = job /\ todo' = todo
  BY DEF ProcessLine
<1>2. /\ linenum \in Nat \ {0}
      /\ clean_lines.elided \in Seq(Line) /\ Len(clean_lines.elided) = Len(clean_lines.raw)
      /\ clean_lines.lines \in Seq(Line) /\ Len(clean_lines.lines) = Len(clean_lines.raw)
  BY <1>1 DEF Inv, LineInv, Line
<1>3. DOMAIN clean_lines.elided = 1..Len(clean_lines.elided) /\ Len(clean_lines.elided) \in Nat
  BY <1>2, LenProperties
<1>4. linenum \in Lines
  BY <1>1, <1>2, <1>3 DEF Lines
<1>5. IsCode(linenum)
  BY <1>2, <1>3, <1>4 DEF IsCode
<1>6. Elided(linenum) \in Line
  BY <1>2, <1>4, ElementOfSeq DEF Elided, Lines
<1> QED
  BY <1>1, <1>2, <1>5, <1>6

\* A file without lines behind it has no function open, and nothing is reported of it.
LEMMA FunctionBegins ==
  ASSUME Inv, ProcessFileData
  PROVE  FunctionInv'
<1>1. /\ linenum' = 1 /\ function_state' = _FunctionState /\ pc' = "lines" /\ job' = job
  BY DEF ProcessFileData
<1>2. clean_lines'.elided \in Seq(Line)
  BY <1>1, FileBegins DEF LineInv, Line
<1>3. Lines' = 1..Len(clean_lines'.elided) /\ Len(clean_lines'.elided) \in Nat
  BY <1>2, LenProperties DEF Lines
<1>4. \A s \in Lines' : ~(s < linenum')
  BY <1>1, <1>3
<1>5. IsFunctionState(function_state, linenum)'
  BY <1>1, <1>4 DEF IsFunctionState, IsOpenFrom, _FunctionState
<1>6. Once' <=> Once
  BY <1>1 DEF Once, IsInjective
<1>7. Once => ErrorsOf(FnSize)' = {}
  BY FileBegins DEF Watched
<1>9. Once => LengthsAreGraded'
  BY <1>7, ErrorsAre DEF LengthsAreGraded
<1> DEFINE errs == ErrorsOf(FnSize)'
<1> HIDE DEF errs
<1>8. Once => errs = {n \in Lines : n < linenum /\ (IsTooLong(n) \/ IsUnfinished(n)) /\ Passes(n, FnSize, 5)}'
  BY <1>4, <1>7 DEF errs
<1> QED
  BY <1>5, <1>6, <1>8, <1>9 DEF FunctionInv, errs

\* A line that is read.
LEMMA FunctionReads ==
  ASSUME Inv, ProcessLine
  PROVE  FunctionInv'
<1> DEFINE At(n) == (IsTooLong(n) \/ IsUnfinished(n)) /\ Passes(n, FnSize, 5)
           length == CheckForFunctionLengths(function_state, clean_lines.lines, linenum, File.indented)
           language == CheckLanguage(include_state, clean_lines, linenum)
           errs == ErrorsOf(FnSize)'
<1>1. /\ IsCode(linenum) /\ linenum \in Nat \ {0} /\ linenum' = linenum + 1 /\ Elided(linenum) \in Line
      /\ pc = "lines" /\ pc' = "lines" /\ clean_lines' = clean_lines /\ job' = job /\ todo' = todo
  BY NextLine
<1>2. Lines' = Lines /\ (IsCalm' <=> IsCalm) /\ (Once' <=> Once)
  BY <1>1, LinesStay
<1> SUFFICES ASSUME IsCalm
             PROVE  /\ IsFunctionState(function_state, linenum)'
                    /\ Once => errs = {n \in Lines : n < linenum /\ At(n)}' /\ LengthsAreGraded'
  BY <1>2 DEF FunctionInv
<1>3. /\ IsFunctionState(function_state, linenum)
      /\ Once => ErrorsOf(FnSize) = {n \in Lines : n < linenum /\ At(n)} /\ LengthsAreGraded
  BY <1>1 DEF Inv, FunctionInv
<1>4. include_state = [include_list |-> include_state.include_list, section |-> include_state.section,
                       last_header |-> include_state.last_header]
  BY <1>1 DEF Inv, IncludeInv, IsIncludeState
<1>5. function_state' = length.state
  BY LineIsChecked DEF StatesFollow
<1>6. ErrorsGrow /\ OthersAreOld
  BY LineIsChecked
<1>7. IsFunctionState(function_state, linenum)'
  <2>1. IsFunctionState(length.state, linenum + 1)
    BY <1>1, <1>3, FunctionFollows
  <2> HIDE DEF length
  <2> QED
    BY <1>1, <1>5, <2>1, FunctionStatePrimed
<1>8. /\ \A e \in Range(length.errors) : e.category = FnSize /\ HasItsConfidence(e)
      /\ (\E e \in Range(length.errors) : Passes(linenum, FnSize, e.confidence)) <=> At(linenum)
  BY <1>1, <1>3, LengthsAreReported DEF Inv
<1>9. \A e \in Range(language.errors) : e.category # FnSize
  BY <1>1, <1>4, OthersSayNothing
<1>10. LineErrors = Range(length.errors) \cup Range(language.errors)
  BY DEF LineErrors
<1> HIDE DEF length, language
<1>18. Once => LengthsAreGraded'
  <2> SUFFICES ASSUME Once, NEW r \in Range(reported'), r.file = Head(todo), r.error.category = FnSize
               PROVE  HasItsConfidence(r.error)'
    BY <1>1 DEF LengthsAreGraded
  <2>1. r \in Range(reported) \/ r.error \in LineErrors
    BY <1>6 DEF OthersAreOld, Watched
  <2>2. HasItsConfidence(r.error)
    BY <1>3, <1>8, <1>9, <1>10, <2>1 DEF LengthsAreGraded
  <2> QED
    BY <1>1, <2>2, FunctionsStay
<1>11. (\E e \in LineErrors : e.category = FnSize /\ Passes(linenum, FnSize, e.confidence)) <=> At(linenum)
  BY <1>8, <1>9, <1>10
<1>12. errs = ErrorsOf(FnSize) \cup {n \in {linenum} : At(linenum)}
  <2>1. FnSize \in Watched
    BY DEF Watched
  <2>2. errs = ErrorsOf(FnSize) \cup {n \in {linenum} : \E e \in LineErrors :
                                       e.category = FnSize /\ Passes(linenum, FnSize, e.confidence)}
    BY <1>6, <2>1 DEF ErrorsGrow
  <2> HIDE DEF errs, At
  <2> QED
    BY <1>11, <2>2
<1>13. \A n : At(n)' <=> At(n)
  BY <1>1, LinesStay, FunctionsStay
<1>14. /\ Lines \subseteq Nat /\ linenum \in Lines
  BY <1>1, CodeIs DEF IsCode
<1> HIDE DEF errs
<1>15. {n \in Lines : n < linenum /\ At(n)}' = {n \in Lines : n < linenum + 1 /\ At(n)}
  BY <1>1, <1>2, <1>13
<1> HIDE DEF At
<1>16. {n \in Lines : n < linenum + 1 /\ At(n)} =
         {n \in Lines : n < linenum /\ At(n)} \cup {n \in {linenum} : At(linenum)}
  <2>1. \A n \in Lines : n < linenum + 1 <=> n < linenum \/ n = linenum
    BY <1>1, <1>14
  <2> QED
    BY <1>14, <2>1
<1>17. Once => errs = {n \in Lines : n < linenum + 1 /\ At(n)}
  BY <1>3, <1>12, <1>16
<1> QED
  BY <1>7, <1>15, <1>17, <1>18 DEF At

\* Every step.
LEMMA FunctionStep ==
  ASSUME Inv, [Next]_vars
  PROVE  FunctionInv'
<1>1. CASE ProcessFileData
  BY <1>1, FunctionBegins
<1>2. CASE ProcessLine
  BY <1>2, FunctionReads
<1>3. CASE ~ProcessFileData /\ ~ProcessLine
  <2>1. \/ pc' # "lines"
        \/ pc' = pc /\ UNCHANGED <<job, todo, text, reported>>
    BY <1>3 DEF Next, vars, counts, ParseArguments, BadArguments, BackupFilters, ProcessConfigOverrides,
         AddFilters, BadFilter, SkipInput, IgnoreFile, EndOfFile, RestoreFilters, Finish, Exited, Die,
         Inv, ConfigInv
  <2>2. CASE pc' # "lines"
    BY <2>2 DEF FunctionInv
  <2>3. CASE pc' = pc /\ UNCHANGED <<job, todo, text, reported>>
    <3>1. UNCHANGED <<pc, job, todo, reported, clean_lines, linenum, function_state>>
      BY <2>3 DEF text
    <3>2. Lines' = Lines /\ (IsCalm' <=> IsCalm) /\ (Once' <=> Once)
      BY <3>1, LinesStay
    <3>3. pc = "lines" /\ IsCalm => IsFunctionState(function_state, linenum)'
      BY <3>1, FunctionStatePrimed DEF Inv, FunctionInv
    <3>4. ErrorsOf(FnSize)' = ErrorsOf(FnSize)
      BY <3>1 DEF ErrorsOf
    <3> DEFINE At(n) == (IsTooLong(n) \/ IsUnfinished(n)) /\ Passes(n, FnSize, 5)
               S == {n \in Lines : n < linenum /\ At(n)}
    <3>5. \A n : At(n)' <=> At(n)
      BY <3>1, LinesStay, FunctionsStay
    <3>6. S' = S
      BY <3>1, <3>2, <3>5
    <3>9. LengthsAreGraded' <=> LengthsAreGraded
      BY <3>1, FunctionsStay DEF LengthsAreGraded
    <3>7. pc = "lines" /\ IsCalm /\ Once => ErrorsOf(FnSize) = S /\ LengthsAreGraded
      BY DEF Inv, FunctionInv
    <3>8. pc' = "lines" /\ IsCalm' /\ Once' => ErrorsOf(FnSize)' = S' /\ LengthsAreGraded'
      BY <3>1, <3>2, <3>4, <3>6, <3>7, <3>9
    <3> QED
      BY <3>1, <3>2, <3>3, <3>8 DEF FunctionInv
  <2> QED
    BY <2>1, <2>2, <2>3
<1> QED
  BY <1>1, <1>2, <1>3

-----------------------------------------------------------------------------
(* The lists of includes, and their sections.                              *)
\* Lists in one: it has the elements of all.
LEMMA FlattenIs ==
  ASSUME NEW lists, IsList(lists), \A i \in DOMAIN lists : IsList(lists[i])
  PROVE  /\ IsList(FlattenSeq(lists))
         /\ Range(FlattenSeq(lists)) = UNION {Range(lists[i]) : i \in DOMAIN lists}
<1> DEFINE n == Len(lists)
           S == UNION {Range(lists[i]) : i \in DOMAIN lists}
           IsIt(h) == h = [i \in 1..n |-> IF i = 1 THEN lists[i] ELSE h[i - 1] \o lists[i]]
           flat == CHOOSE h : IsIt(h)
           UpTo(k) == UNION {Range(lists[j]) : j \in 1..k}
<1>1. n \in Nat /\ DOMAIN lists = 1..n
  BY ListFacts
<1>2. FlattenSeq(lists) = IF n = 0 THEN lists ELSE flat[n]
  BY Zenon DEF FlattenSeq
<1>3. \A i \in 1..n : lists[i] \in Seq(S)
  <2> TAKE i \in 1..n
  <2>1. lists[i] \in Seq(Range(lists[i])) /\ Range(lists[i]) \subseteq S
    BY <1>1 DEF IsList
  <2> HIDE DEF S
  <2> QED
    BY <2>1, SeqMonotonic
<1> HIDE DEF n, S, flat
<1>4. CASE n = 0
  <2>1. DOMAIN lists = {}
    BY <1>1, <1>4
  <2>2. S = {} /\ Range(lists) = {}
    BY <2>1 DEF S, Range
  <2> QED
    BY <1>2, <1>4, <2>2 DEF S
<1>5. CASE n # 0
  <2>1. \E h : IsIt(h)
    <3> DEFINE put == [i \in 1..n |-> [v \in Seq(S) |-> v \o lists[i]]]
    <3>1. <<>> \in Seq(S) /\ \A v \in Seq(S) : <<>> \o v = v
      BY EmptySeq, ConcatEmptySeq
    <3>2. \A i \in 1..n : \A v \in Seq(S) : put[i][v] = v \o lists[i]
      OBVIOUS
    <3>3. \A i \in 1..n : \A v \in Seq(S) : v \o lists[i] \in Seq(S)
      BY <1>3, ConcatProperties
    <3> HIDE DEF put
    <3>4. \A i \in 1..n : \A v \in Seq(S) : put[i][v] \in Seq(S)
      BY <3>2, <3>3
    <3> DEFINE T == Seq(S)
    <3> HIDE DEF T
    <3>5. PICK h : Unrolls(n, T, <<>>, put, h)
      BY <1>1, <3>1, <3>4, RecursionExists DEF T
    <3>6. h[0] = <<>> /\ \A i \in 1..n : h[i - 1] \in Seq(S) /\ h[i] = h[i - 1] \o lists[i]
      <4>1. \A i \in 1..n : i - 1 \in 0..n
        BY <1>1
      <4> QED
        BY <3>2, <3>5, <4>1 DEF Unrolls, T
    <3> DEFINE g == [i \in 1..n |-> h[i]]
    <3>7. ASSUME NEW i \in 1..n PROVE g[i] = IF i = 1 THEN lists[i] ELSE g[i - 1] \o lists[i]
      <4>1. CASE i = 1
        <5>1. h[1] = <<>> \o lists[1] /\ lists[1] \in Seq(S)
          <6>1. h[i] = h[i - 1] \o lists[i] /\ lists[i] \in Seq(S)
            BY <1>3, <3>6
          <6>2. i - 1 = 0
            BY <4>1
          <6> QED
            BY <3>6, <4>1, <6>1, <6>2
        <5>2. h[1] = lists[1]
          BY <3>1, <5>1
        <5> QED
          BY <4>1, <5>2
      <4>2. CASE i # 1
        <5>1. i - 1 \in 1..n
          BY <1>1, <4>2
        <5> QED
          BY <3>6, <4>2, <5>1
      <4> QED
        BY <4>1, <4>2
    <3>8. IsIt(g)
      <4>1. g = [i \in 1..n |-> g[i]]
        OBVIOUS
      <4> HIDE DEF g
      <4> QED
        BY <3>7, <4>1
    <3> QED
      BY <3>8
  <2>2. IsIt(flat)
    <3> HIDE DEF IsIt
    <3> QED
      BY <2>1 DEF flat
  <2>3. flat[1] = lists[1] /\ \A i \in 1..n : i # 1 => flat[i] = flat[i - 1] \o lists[i]
    <3>1. \A i \in 1..n : flat[i] = IF i = 1 THEN lists[i] ELSE flat[i - 1] \o lists[i]
      BY <2>2
    <3> HIDE DEF IsIt
    <3>2. 1 \in 1..n
      BY <1>1, <1>5
    <3> QED
      BY <3>1, <3>2
  <2> HIDE DEF IsIt
  <2> DEFINE T == {k \in 0..n : k = 0 \/ (flat[k] \in Seq(S) /\ Range(flat[k]) = UpTo(k))}
  <2>4. 0 \in T
    BY <1>1
  <2>5. ASSUME NEW k \in 1..n, k - 1 \in T PROVE k \in T
    <3>1. CASE k = 1
      <4>1. UpTo(1) = Range(lists[1])
        OBVIOUS
      <4> QED
        BY <1>1, <1>3, <2>3, <3>1, <4>1
    <3>2. CASE k # 1
      <4>1. k - 1 # 0 /\ flat[k - 1] \in Seq(S) /\ Range(flat[k - 1]) = UpTo(k - 1)
        BY <1>1, <2>5, <3>2
      <4>2. flat[k] = flat[k - 1] \o lists[k] /\ lists[k] \in Seq(S)
        BY <1>3, <2>3, <3>2
      <4>3. flat[k] \in Seq(S)
        BY <4>1, <4>2, ConcatProperties
      <4>4. IsList(flat[k - 1]) /\ IsList(lists[k])
        <5>1. IsList(flat[k - 1])
          BY <4>1, SeqIsList
        <5> QED
          BY <1>1, <5>1
      <4>5. Range(flat[k]) = UpTo(k - 1) \cup Range(lists[k])
        BY <4>1, <4>2, <4>4, ListRange
      <4>6. UpTo(k) = UpTo(k - 1) \cup Range(lists[k])
        <5>1. \A j : j \in 1..k <=> j = k \/ j \in 1..(k - 1)
          BY <1>1
        <5> QED
          BY <5>1
      <4> HIDE DEF UpTo
      <4>7. k \in 0..n /\ Range(flat[k]) = UpTo(k)
        BY <1>1, <4>5, <4>6
      <4> QED
        BY <4>3, <4>7
    <3> QED
      BY <3>1, <3>2
  <2>6. \A k \in 0..n : k \in T
    <3> HIDE DEF T
    <3> QED
      BY <1>1, <2>4, <2>5, Climbs
  <2>7. flat[n] \in Seq(S) /\ Range(flat[n]) = UpTo(n)
    BY <1>1, <1>5, <2>6
  <2>8. UpTo(n) = S
    BY <1>1 DEF S
  <2> QED
    BY <1>2, <1>5, <2>7, <2>8, SeqIsList DEF S
<1> QED
  BY <1>4, <1>5

\* A header is known exactly when its path is in one of the lists.
LEMMA KnownIs ==
  ASSUME NEW s, NEW n, IsList(s.include_list),
         \A i \in DOMAIN s.include_list : IsList(s.include_list[i])
  PROVE  Known(s, n) <=> HeaderAt(n).path \in PathsIn(s.include_list)
<1> DEFINE list == FlattenSeq(s.include_list)
           path == HeaderAt(n).path
           I == {i \in 1..Len(list) : list[i][1] = path}
<1>1. IsList(list) /\ Range(list) = UNION {Range(s.include_list[i]) : i \in DOMAIN s.include_list}
  BY FlattenIs
<1>2. FindHeader(s, path) = IF I # {} THEN Min(I) ELSE 0
  BY Zenon DEF FindHeader, Listed, SelectInSeq
<1>3. PathsIn(s.include_list) = {h[1] : h \in Range(list)}
  BY <1>1 DEF PathsIn
<1> HIDE DEF list, path
<1>4. Len(list) \in Nat /\ DOMAIN list = 1..Len(list)
  BY <1>1, ListFacts
<1>5. I # {} <=> path \in PathsIn(s.include_list)
  BY <1>3, <1>4 DEF Range
<1>6. I # {} => Min(I) # 0
  <2>1. I \in SUBSET Nat /\ 0 \notin I
    BY <1>4
  <2> HIDE DEF I
  <2> QED
    BY <2>1, MinOfNaturals
<1> HIDE DEF I
<1>7. FindHeader(s, path) # 0 <=> path \in PathsIn(s.include_list)
  BY <1>2, <1>5, <1>6
<1> QED
  BY <1>7 DEF Known, path

DirectiveAt(n) == Directive(Elided(n))

\* What is between a line before line n and the line behind it.
LEMMA BetweenNext ==
  ASSUME NEW n \in Nat, NEW m \in Nat
  PROVE  /\ m < n => (IfBetween(m, n + 1) <=> IfBetween(m, n) \/ DirectiveAt(n) = "#if")
         /\ m < n => (Ended(m, n + 1) <=> Ended(m, n) \/ (DirectiveAt(n) = "#else" /\ ~IfBetween(m, n)))
         /\ ~IfBetween(n, n + 1) /\ ~Ended(n, n + 1)
<1> DEFINE If(k) == Directive(Elided(k)) = "#if"
           Else(k) == Directive(Elided(k)) = "#else"
<1>1. IfBetween(m, n) <=> \E k \in (m + 1)..(n - 1) : If(k)
  BY Zenon DEF IfBetween
<1>2. IfBetween(m, n + 1) <=> \E k \in (m + 1)..((n + 1) - 1) : If(k)
  BY Zenon DEF IfBetween
<1>3. Ended(m, n) <=> \E e \in (m + 1)..(n - 1) : Else(e) /\ ~IfBetween(m, e)
  BY Zenon DEF Ended
<1>4. Ended(m, n + 1) <=> \E e \in (m + 1)..((n + 1) - 1) : Else(e) /\ ~IfBetween(m, e)
  BY Zenon DEF Ended
<1>5. /\ IfBetween(n, n + 1) <=> \E k \in (n + 1)..((n + 1) - 1) : If(k)
      /\ Ended(n, n + 1) <=> \E e \in (n + 1)..((n + 1) - 1) : Else(e) /\ ~IfBetween(n, e)
  BY Zenon DEF IfBetween, Ended
<1>6. m < n => \A k : k \in (m + 1)..((n + 1) - 1) <=> k = n \/ k \in (m + 1)..(n - 1)
  OBVIOUS
<1>7. \A k : k \notin (n + 1)..((n + 1) - 1)
  OBVIOUS
<1>8. (If(n) <=> DirectiveAt(n) = "#if") /\ (Else(n) <=> DirectiveAt(n) = "#else")
  BY Zenon DEF DirectiveAt
<1> HIDE DEF If, Else
<1>9. m < n => (IfBetween(m, n + 1) <=> IfBetween(m, n) \/ If(n))
  BY <1>1, <1>2, <1>6
<1>10. m < n => (Ended(m, n + 1) <=> Ended(m, n) \/ (Else(n) /\ ~IfBetween(m, n)))
  BY <1>3, <1>4, <1>6
<1> QED
  BY <1>5, <1>7, <1>8, <1>9, <1>10

\* The includes heard of behind a line.
LEMMA HeardNext ==
  ASSUME NEW n, IsCode(n)
  PROVE  /\ Heard(n + 1) = {m \in Heard(n) : ~(DirectiveAt(n) = "#else" /\ ~IfBetween(m, n))}
                             \cup {m \in {n} : n \in Included /\ Recorded(n)}
         /\ \A m \in Heard(n) : m \in Included /\ m < n
         /\ \A m \in Heard(n) : IfBetween(m, n + 1) <=> IfBetween(m, n) \/ DirectiveAt(n) = "#if"
         /\ ~IfBetween(n, n + 1)
<1>1. n \in Nat /\ Lines \subseteq Nat /\ Included \subseteq Lines
  BY CodeIs DEF Included
<1>2. \A m \in Included : m < n + 1 <=> m < n \/ m = n
  BY <1>1
<1>3. \A m \in Included : m \in Nat
  BY <1>1
<1> DEFINE Cut(m) == DirectiveAt(n) = "#else" /\ ~IfBetween(m, n)
<1>4. \A m \in Included : m < n => (Ended(m, n + 1) <=> Ended(m, n) \/ Cut(m))
  BY <1>1, <1>3, BetweenNext
<1>5. ~Ended(n, n + 1) /\ ~IfBetween(n, n + 1)
  BY <1>1, BetweenNext
<1>6. \A m : m \in Heard(n) <=> m \in Included /\ m < n /\ Recorded(m) /\ ~Ended(m, n)
  BY Zenon DEF Heard
<1>7. \A m : m \in Heard(n + 1) <=> m \in Included /\ m < n + 1 /\ Recorded(m) /\ ~Ended(m, n + 1)
  BY Zenon DEF Heard
<1> HIDE DEF Cut
<1>8. \A m : m \in Heard(n + 1) <=> (m \in Heard(n) /\ ~Cut(m)) \/ (m = n /\ n \in Included /\ Recorded(n))
  <2>1. ~(n < n)
    BY <1>1
  <2> QED
    BY <1>2, <1>4, <1>5, <1>6, <1>7, <2>1
<1>9. Heard(n + 1) = {m \in Heard(n) : ~Cut(m)} \cup {m \in {n} : n \in Included /\ Recorded(n)}
  BY <1>8
<1>10. \A m \in Heard(n) : IfBetween(m, n + 1) <=> IfBetween(m, n) \/ DirectiveAt(n) = "#if"
  BY <1>1, <1>3, <1>6, BetweenNext
<1> QED
  BY <1>5, <1>6, <1>9, <1>10 DEF Cut

\* An include is no directive, and a stretch goes on or ends at a line.
LEMMA StretchNext ==
  ASSUME NEW n, IsCode(n)
  PROVE  /\ DirectiveAt(n) # NONE => Stretch(n + 1) = {}
         /\ DirectiveAt(n) = NONE => Stretch(n + 1) = Stretch(n) \cup {m \in {n} : n \in Included /\ Counts(n)}
         /\ \A m \in Stretch(n) : Stretch(m) \subseteq Stretch(n) /\ m \in Included /\ m < n
<1> DEFINE Dir(k) == Directive(Elided(k)) # NONE
           Unbroken(m, e) == \A k \in m..(e - 1) : ~Dir(k)
<1>1. n \in Nat /\ Lines \subseteq Nat /\ Included \subseteq Lines
  BY CodeIs DEF Included
<1>2. \A e, m : m \in Stretch(e) <=> m \in Included /\ m < e /\ Counts(m) /\ Unbroken(m, e)
  BY Zenon DEF Stretch
<1>3. DirectiveAt(n) # NONE <=> Dir(n)
  BY Zenon DEF DirectiveAt
<1> HIDE DEF Dir
<1>4. \A m \in Included : m \in Nat /\ (m < n + 1 <=> m < n \/ m = n)
  BY <1>1
<1>5. \A m \in Nat : m < n + 1 => (Unbroken(m, n + 1) <=> Unbroken(m, n) /\ ~Dir(n))
  <2> TAKE m \in Nat
  <2> SUFFICES ASSUME m < n + 1 PROVE Unbroken(m, n + 1) <=> Unbroken(m, n) /\ ~Dir(n)
    OBVIOUS
  <2>1. \A k : k \in m..((n + 1) - 1) <=> k = n \/ k \in m..(n - 1)
    BY <1>1
  <2> QED
    BY <2>1
<1>6. Unbroken(n, n)
  BY <1>1
<1>7. \A m, l \in Nat : l < m /\ m < n /\ Unbroken(l, m) /\ Unbroken(m, n) => Unbroken(l, n) /\ l < n
  <2> SUFFICES ASSUME NEW m \in Nat, NEW l \in Nat, l < m, m < n, Unbroken(l, m), Unbroken(m, n)
               PROVE  Unbroken(l, n) /\ l < n
    OBVIOUS
  <2>1. \A k \in l..(n - 1) : k \in l..(m - 1) \/ k \in m..(n - 1)
    BY <1>1
  <2> QED
    BY <1>1, <2>1
<1> HIDE DEF Unbroken
<1>8. \A m : m \in Stretch(n + 1) <=> ~Dir(n) /\ (m \in Stretch(n) \/ (m = n /\ n \in Included /\ Counts(n)))
  BY <1>1, <1>2, <1>4, <1>5, <1>6
<1>9. \A m \in Stretch(n) : \A l \in Stretch(m) : l \in Stretch(n)
  BY <1>2, <1>4, <1>7
<1> QED
  BY <1>2, <1>3, <1>8, <1>9

\* The lists of the includes of a file, and the paths on one.
AreLists(lists) == IsList(lists) /\ lists # <<>> /\ \A i \in DOMAIN lists : IsList(lists[i])

PathsOn(list) == {h[1] : h \in Range(list)}

\* A list that is put behind others, or in place of the last, adds its paths.
LEMMA AppendPaths ==
  ASSUME NEW lists, IsList(lists), \A i \in DOMAIN lists : IsList(lists[i]), NEW x, IsList(x)
  PROVE  /\ AreLists(Append(lists, x)) /\ Front(Append(lists, x)) = lists
         /\ PathsIn(Append(lists, x)) = PathsIn(lists) \cup PathsOn(x)
<1> DEFINE t == Append(lists, x)
           n == Len(lists)
<1>1. /\ IsList(t) /\ Len(t) = n + 1 /\ n \in Nat
      /\ \A i \in 1..n : t[i] = lists[i]
      /\ t[n + 1] = x /\ DOMAIN lists = 1..n /\ DOMAIN t = 1..(n + 1)
  BY ListAppend, ListFacts
<1>2. Front(t) = lists /\ t # <<>>
  BY FrontOfAppend
<1> HIDE DEF t, n
<1>3. \A i : i \in DOMAIN t <=> i \in DOMAIN lists \/ i = n + 1
  BY <1>1
<1>4. \A i \in DOMAIN t : IsList(t[i])
  BY <1>1, <1>3
<1>5. PathsIn(t) = PathsIn(lists) \cup PathsOn(x)
  <2>1. \A h : h \in UNION {Range(t[i]) : i \in DOMAIN t} <=>
                 h \in UNION {Range(lists[i]) : i \in DOMAIN lists} \/ h \in Range(x)
    BY <1>1, <1>3
  <2> DEFINE T == UNION {Range(t[i]) : i \in DOMAIN t}
             L == UNION {Range(lists[i]) : i \in DOMAIN lists}
  <2>2. PathsIn(t) = {h[1] : h \in T} /\ PathsIn(lists) = {h[1] : h \in L}
    BY Zenon DEF PathsIn
  <2>3. \A h : h \in T <=> h \in L \/ h \in Range(x)
    BY <2>1
  <2> HIDE DEF T, L
  <2> QED
    BY <2>2, <2>3 DEF PathsOn
<1> QED
  BY <1>1, <1>2, <1>4, <1>5 DEF AreLists, t

\* What is put on top, in place of the last list.
LEMMA TopPaths ==
  ASSUME NEW lists, AreLists(lists), NEW x, IsList(x)
  PROVE  /\ AreLists(OnTop(lists, x)) /\ Front(OnTop(lists, x)) = Front(lists)
         /\ PathsIn(OnTop(lists, x)) = PathsIn(Front(lists)) \cup PathsOn(x)
         /\ PathsIn(lists) = PathsIn(Front(lists)) \cup PathsOn(Last(lists)) /\ IsList(Last(lists))
<1> DEFINE f == Front(lists)
           n == Len(lists)
<1>1. /\ IsList(lists) /\ n \in Nat \ {0} /\ DOMAIN lists = 1..n
      /\ lists = [i \in 1..n |-> lists[i]] /\ \A i \in 1..n : IsList(lists[i])
  BY ListFacts DEF AreLists
<1>2. IsList(f) /\ \A i \in DOMAIN f : f[i] = lists[i] /\ i \in 1..n
  <2>1. IsList(f) /\ \A i \in 1..Len(f) : f[i] = lists[i] /\ i \in 1..n
    BY ListFront DEF AreLists
  <2> HIDE DEF f
  <2> QED
    BY <2>1, ListFacts
<1>3. OnTop(lists, x) = Append(f, x)
  BY DEF OnTop
<1>4. \A i \in DOMAIN f : IsList(f[i])
  BY <1>1, <1>2
<1>5. Last(lists) = lists[n] /\ IsList(lists[n])
  BY <1>1 DEF Last
<1>6. lists = Append(f, lists[n])
  <2>1. f = [i \in 1..(n - 1) |-> lists[i]]
    <3>1. f = SubSeq(lists, 1, n - 1)
      BY DEF Front
    <3> HIDE DEF n, f
    <3>2. SubSeq(lists, 1, n - 1) = [i \in 1..(n - 1) |-> lists[i]]
      BY <1>1
    <3> QED
      BY <3>1, <3>2
  <2> DEFINE a == Append(f, lists[n])
  <2> HIDE DEF f
  <2>2. Len(f) = n - 1
    <3>1. f = [i \in 1..(n - 1) |-> f[i]] /\ n - 1 \in Nat
      BY <1>1, <2>1
    <3> HIDE DEF n
    <3> QED
      BY <3>1, ListOf
  <2>3. /\ a = [i \in 1..Len(a) |-> a[i]] /\ Len(a) = Len(f) + 1
        /\ \A i \in 1..Len(f) : a[i] = f[i]
        /\ a[Len(f) + 1] = lists[n]
    BY <1>2, ListAppend, ListFacts
  <2> HIDE DEF a, n
  <2>4. Len(a) = n /\ \A i \in 1..n : a[i] = lists[i]
    <3>1. \A i \in 1..(n - 1) : f[i] = lists[i]
      BY <2>1
    <3>2. \A i \in 1..n : i = n \/ i \in 1..(n - 1)
      BY <1>1
    <3>3. Len(f) + 1 = n
      BY <1>1, <2>2
    <3>4. a[n] = lists[n] /\ Len(a) = n
      BY <2>3, <3>3
    <3>5. \A i \in 1..(n - 1) : a[i] = lists[i]
      BY <2>2, <2>3, <3>1
    <3> QED
      BY <3>2, <3>4, <3>5
  <2>5. a = [i \in 1..n |-> lists[i]]
    BY <2>3, <2>4
  <2> QED
    BY <1>1, <2>5 DEF a
<1> HIDE DEF f, n
<1>7. /\ AreLists(Append(f, x)) /\ Front(Append(f, x)) = f
      /\ PathsIn(Append(f, x)) = PathsIn(f) \cup PathsOn(x)
  BY <1>2, <1>4, AppendPaths
<1>8. PathsIn(Append(f, lists[n])) = PathsIn(f) \cup PathsOn(lists[n])
  BY <1>2, <1>4, <1>5, AppendPaths
<1> QED
  BY <1>3, <1>5, <1>6, <1>7, <1>8 DEF f

\* A header that is recorded.
LEMMA RecordPaths ==
  ASSUME NEW list, IsList(list), NEW p, NEW n
  PROVE  /\ IsList(Append(list, <<p, n>>))
         /\ PathsOn(Append(list, <<p, n>>)) = PathsOn(list) \cup {p}
         /\ PathsOn(<<>>) = {} /\ IsList(<<>>)
<1> DEFINE h == <<p, n>>
<1>1. h[1] = p
  OBVIOUS
<1> HIDE DEF h
<1>2. IsList(Append(list, h)) /\ Range(Append(list, h)) = Range(list) \cup {h}
  BY RangeAppend, ListAppend
<1>3. PathsOn(Append(list, h)) = PathsOn(list) \cup {p}
  BY <1>1, <1>2 DEF PathsOn
<1>4. PathsOn(<<>>) = {} /\ IsList(<<>>)
  BY ShortRanges, ShortLists DEF PathsOn
<1> QED
  BY <1>2, <1>3, <1>4 DEF h

\* A line is of one kind: a directive, an include, or neither.
LEMMA DirectiveIs ==
  ASSUME NEW n, Elided(n) \in Line
  PROVE  /\ DirectiveAt(n) \in {"#if", "#else", "#endif", NONE}
         /\ NONE \notin {"#if", "#else", "#endif"}
         /\ IsInclude(Elided(n)) => DirectiveAt(n) = NONE
<1> DEFINE line == Elided(n)
<1>1. line \in Seq(Alphabet)
  BY DEF Line
<1>2. DirectiveAt(n) = IF line # <<>> /\ Head(line) \in {"#if", "#else", "#endif"} THEN Head(line) ELSE NONE
  BY Zenon DEF DirectiveAt, Directive
<1> HIDE DEF line
<1>3. NONE \notin {"#if", "#else", "#endif"}
  BY DEF NONE
<1>4. DirectiveAt(n) \in {"#if", "#else", "#endif", NONE}
  BY <1>2
<1>5. IsInclude(line) => line # <<>> /\ Head(line) = "#include"
  BY <1>1 DEF IsInclude
<1> QED
  BY <1>2, <1>3, <1>4, <1>5 DEF line

\* A header with the name of the file.
Mine(n) == ~OfSystem(n) /\ HeaderAt(n).base = File.base

\* The type of a header, and its section.
LEMMA SectionIs ==
  ASSUME NEW n
  PROVE  /\ OfSystem(n) /\ ~HeaderAt(n).cpp => SectionOf(n) = C_SYS /\ TypeAt(n) = "C_SYS"
         /\ OfSystem(n) /\ HeaderAt(n).cpp => SectionOf(n) = CPP_SYS /\ TypeAt(n) = "CPP_SYS"
         /\ Mine(n) => TypeAt(n) \in {"LIKELY_MY", "POSSIBLE_MY"}
         /\ ~OfSystem(n) /\ ~Mine(n) => TypeAt(n) = "OTHER"
         /\ ~OfSystem(n) => SectionOf(n) = IF \A m \in Stretch(n) \cup {n} : Mine(m) THEN MY_H ELSE OTHER_H
<1> DEFINE All == \A m \in Stretch(n) \cup {n} : Mine(m)
           sys == OfSystem(n)
           cpp == HeaderAt(n).cpp
           i   == HeaderAt(n)
           public == IF File.dir = <<>> THEN <<"/", "public">> ELSE Append(Front(File.dir), "public")
           mine == _DropCommonSuffixes(File, GetHeaderExtensions, GetNonHeaderExtensions)
                     = _DropCommonSuffixes(i, GetHeaderExtensions, GetNonHeaderExtensions)
                   /\ i.dir \in {File.dir, public}
<1>1. SectionOf(n) = CASE sys /\ ~cpp -> C_SYS [] sys /\ cpp -> CPP_SYS [] All -> MY_H [] OTHER -> OTHER_H
  BY Zenon DEF SectionOf, Mine
<1>2. TypeAt(n) = CASE sys /\ cpp -> "CPP_SYS" [] sys /\ ~cpp -> "C_SYS" [] ~sys /\ mine -> "LIKELY_MY"
                    [] ~sys /\ ~mine /\ File.base = i.base -> "POSSIBLE_MY" [] OTHER -> "OTHER"
  BY Zenon DEF TypeAt, _ClassifyInclude, OfSystem
<1>3. mine => i.base = File.base
  <2>1. \A f, h, o : _DropCommonSuffixes(f, h, o)[1] = f.base
    <3> TAKE f, h, o
    <3>1. _DropCommonSuffixes(f, h, o) \in {<<f.base, NONE>>, <<f.base, f.suffix>>}
      BY Zenon DEF _DropCommonSuffixes
    <3> QED
      BY <3>1
  <2> DEFINE f == _DropCommonSuffixes(File, GetHeaderExtensions, GetNonHeaderExtensions)
             g == _DropCommonSuffixes(i, GetHeaderExtensions, GetNonHeaderExtensions)
  <2>2. f[1] = File.base /\ g[1] = i.base
    BY <2>1
  <2>3. mine => f = g
    BY Zenon
  <2> HIDE DEF f, g, mine, i
  <2> QED
    BY <2>2, <2>3
<1>4. Mine(n) <=> ~sys /\ i.base = File.base
  BY DEF Mine
<1>5. All => Mine(n)
  OBVIOUS
<1> HIDE DEF All, sys, cpp, mine, i
<1>6. /\ sys /\ ~cpp => SectionOf(n) = C_SYS /\ TypeAt(n) = "C_SYS"
      /\ sys /\ cpp => SectionOf(n) = CPP_SYS /\ TypeAt(n) = "CPP_SYS"
  <2>1. sys /\ ~cpp => SectionOf(n) = C_SYS
    BY <1>1, <1>4, <1>5
  <2>2. sys /\ cpp => SectionOf(n) = CPP_SYS
    BY <1>1, <1>4, <1>5
  <2>3. /\ sys /\ ~cpp => TypeAt(n) = "C_SYS"
        /\ sys /\ cpp => TypeAt(n) = "CPP_SYS"
    BY <1>2
  <2> QED
    BY <2>1, <2>2, <2>3
<1>7. /\ Mine(n) => TypeAt(n) \in {"LIKELY_MY", "POSSIBLE_MY"}
      /\ ~sys /\ ~Mine(n) => TypeAt(n) = "OTHER"
  BY <1>2, <1>3, <1>4
<1>8. ~sys => SectionOf(n) = IF All THEN MY_H ELSE OTHER_H
  BY <1>1, <1>4, <1>5
<1> QED
  BY <1>6, <1>7, <1>8 DEF All, sys, cpp, i

\* A section is that of the latest header of the stretch.
LEMMA SectionFollows ==
  ASSUME NEW n, IsCode(n), NEW section \in Nat,
         \A m \in Stretch(n) : SectionOf(m) <= section,
         section = INITIAL \/ \E m \in Stretch(n) : SectionOf(m) = section
  PROVE  LET next == NextSection(section, TypeAt(n))
         IN  /\ next \in Nat /\ (next = section \/ next = SectionOf(n))
             /\ SectionOf(n) <= next /\ \A m \in Stretch(n) : SectionOf(m) <= next
             /\ OutOfOrder(section, TypeAt(n)) <=> IsLate(n)
<1> DEFINE next == NextSection(section, TypeAt(n))
           bad  == OutOfOrder(section, TypeAt(n))
           AllMine == \A m \in Stretch(n) : Mine(m)
           type == TypeAt(n)
<1>1. \A m : SectionOf(m) \in 1..4
  <2> TAKE m
  <2>1. OfSystem(m) \/ ~OfSystem(m)
    OBVIOUS
  <2> QED
    BY <2>1, SectionIs DEF C_SYS, CPP_SYS, MY_H, OTHER_H
<1>2. section <= 1 <=> AllMine
  <2>1. ASSUME section <= 1, NEW m \in Stretch(n) PROVE Mine(m)
    <3>1. SectionOf(m) = 1
      BY <1>1, <2>1
    <3>2. ~OfSystem(m)
      BY <3>1, SectionIs DEF C_SYS, CPP_SYS
    <3>3. \A l \in Stretch(m) \cup {m} : Mine(l)
      BY <3>1, <3>2, SectionIs DEF MY_H, OTHER_H
    <3> QED
      BY <3>3
  <2>2. ASSUME AllMine, ~(section <= 1) PROVE FALSE
    <3>1. PICK m \in Stretch(n) : SectionOf(m) = section
      BY <2>2 DEF INITIAL
    <3>2. Stretch(m) \subseteq Stretch(n)
      BY StretchNext
    <3>3. \A l \in Stretch(m) \cup {m} : Mine(l)
      BY <2>2, <3>2
    <3>4. ~OfSystem(m)
      BY <3>3 DEF Mine
    <3>5. SectionOf(m) = 1
      BY <3>3, <3>4, SectionIs DEF MY_H
    <3> QED
      BY <2>2, <3>1, <3>5
  <2> QED
    BY <2>1, <2>2
<1>3. \A k \in 1..4 : (\E m \in Stretch(n) : SectionOf(m) > k) <=> section > k
  <2> TAKE k \in 1..4
  <2>1. ASSUME NEW m \in Stretch(n), SectionOf(m) > k PROVE section > k
    <3>1. SectionOf(m) <= section /\ SectionOf(m) \in 1..4
      BY <1>1
    <3> QED
      BY <2>1, <3>1
  <2>2. section > k => \E m \in Stretch(n) : SectionOf(m) > k
    BY DEF INITIAL
  <2> QED
    BY <2>1, <2>2
<1>4. next = CASE type = "C_SYS" /\ section <= 2 -> 2
               [] type = "CPP_SYS" /\ section <= 3 -> 3
               [] type \in {"LIKELY_MY", "POSSIBLE_MY"} /\ section <= 1 -> 1
               [] type \in {"LIKELY_MY", "POSSIBLE_MY"} /\ section > 1 -> 4
               [] type = "OTHER" -> 4
               [] OTHER -> section
  BY Zenon DEF NextSection, C_SYS, CPP_SYS, MY_H, OTHER_H
<1>5. bad <=> (type = "C_SYS" /\ section > 2) \/ (type = "CPP_SYS" /\ section > 3)
  BY DEF OutOfOrder, C_SYS, CPP_SYS
<1>6. IsLate(n) <=> OfSystem(n) /\ \E m \in Stretch(n) : SectionOf(m) > SectionOf(n)
  BY Zenon DEF IsLate
<1>7. OfSystem(n) => (IsLate(n) <=> section > SectionOf(n))
  <2>1. SectionOf(n) \in 1..4
    BY <1>1
  <2> QED
    BY <1>3, <1>6, <2>1
<1> DEFINE mine == \A m \in Stretch(n) \cup {n} : Mine(m)
<1>8. mine <=> Mine(n) /\ AllMine
  OBVIOUS
<1>9. /\ OfSystem(n) /\ ~HeaderAt(n).cpp => SectionOf(n) = 2 /\ type = "C_SYS"
      /\ OfSystem(n) /\ HeaderAt(n).cpp => SectionOf(n) = 3 /\ type = "CPP_SYS"
      /\ Mine(n) => type \in {"LIKELY_MY", "POSSIBLE_MY"}
      /\ ~OfSystem(n) /\ ~Mine(n) => type = "OTHER"
      /\ ~OfSystem(n) => SectionOf(n) = IF mine THEN 1 ELSE 4
  BY SectionIs DEF C_SYS, CPP_SYS, MY_H, OTHER_H
<1>10. Mine(n) => ~OfSystem(n)
  BY DEF Mine
<1> HIDE DEF AllMine, mine, next, bad, type
<1> DEFINE Goal == /\ next \in Nat /\ (next = section \/ next = SectionOf(n))
                   /\ SectionOf(n) <= next /\ (section <= next \/ next = 4)
                   /\ bad <=> IsLate(n)
<1>11. ASSUME OfSystem(n) PROVE Goal
  BY <1>4, <1>5, <1>7, <1>9, <1>11
<1>12. ASSUME Mine(n) PROVE Goal
  BY <1>1, <1>2, <1>4, <1>5, <1>6, <1>8, <1>9, <1>10, <1>12
<1>13. ASSUME ~OfSystem(n) /\ ~Mine(n) PROVE Goal
  BY <1>1, <1>4, <1>5, <1>6, <1>8, <1>9, <1>13
<1>14. Goal
  BY <1>11, <1>12, <1>13
<1>15. \A m \in Stretch(n) : SectionOf(m) <= next
  BY <1>1, <1>14
<1> QED
  BY <1>14, <1>15 DEF next, bad, type

\* The lists of a state, and the includes that they are to hold.
Hold(lists, n) ==
  /\ AreLists(lists) /\ PathsIn(lists) = PathsOf(Heard(n))
  /\ PathsIn(Front(lists)) = PathsOf({m \in Heard(n) : IfBetween(m, n)})

\* A state in its parts.
LEMMA IncludeStateIs ==
  ASSUME NEW s, NEW n
  PROVE  IsIncludeState(s, n) <=>
           /\ s = [include_list |-> s.include_list, section |-> s.section, last_header |-> s.last_header]
           /\ Hold(s.include_list, n)
           /\ s.section \in Nat /\ \A m \in Stretch(n) : SectionOf(m) <= s.section
           /\ s.section = INITIAL \/ \E m \in Stretch(n) : SectionOf(m) = s.section
BY Zenon DEF IsIncludeState, Hold, AreLists

\* What a directive does to the lists.
LEMMA DirectiveHolds ==
  ASSUME NEW n, IsCode(n), ~IsInclude(Elided(n)), NEW lists, Hold(lists, n)
  PROVE  /\ DirectiveAt(n) = "#if" => Hold(Append(lists, <<>>), n + 1)
         /\ DirectiveAt(n) = "#else" => Hold(OnTop(lists, <<>>), n + 1)
         /\ DirectiveAt(n) \notin {"#if", "#else"} => Hold(lists, n + 1)
<1> DEFINE Kept == {m \in Heard(n) : IfBetween(m, n)}
<1>1. n \notin Included
  BY DEF Included
<1>2. /\ Heard(n + 1) = {m \in Heard(n) : ~(DirectiveAt(n) = "#else" /\ ~IfBetween(m, n))}
      /\ \A m \in Heard(n) : IfBetween(m, n + 1) <=> IfBetween(m, n) \/ DirectiveAt(n) = "#if"
  <2>1. {m \in {n} : n \in Included /\ Recorded(n)} = {}
    BY <1>1
  <2> QED
    BY <2>1, HeardNext
<1>3. /\ AreLists(lists) /\ IsList(lists) /\ \A i \in DOMAIN lists : IsList(lists[i])
      /\ PathsIn(lists) = PathsOf(Heard(n)) /\ PathsIn(Front(lists)) = PathsOf(Kept)
  BY Zenon DEF Hold, AreLists
<1>4. IsList(<<>>) /\ PathsOn(<<>>) = {}
  BY ShortRanges, ShortLists DEF PathsOn
<1>5. /\ AreLists(Append(lists, <<>>)) /\ Front(Append(lists, <<>>)) = lists
      /\ PathsIn(Append(lists, <<>>)) = PathsIn(lists)
  BY <1>3, <1>4, AppendPaths
<1>6. /\ AreLists(OnTop(lists, <<>>)) /\ Front(OnTop(lists, <<>>)) = Front(lists)
      /\ PathsIn(OnTop(lists, <<>>)) = PathsIn(Front(lists))
  <2> DEFINE e == <<>>
  <2>1. IsList(e) /\ PathsOn(e) = {}
    BY <1>4
  <2> HIDE DEF e
  <2>2. /\ AreLists(OnTop(lists, e)) /\ Front(OnTop(lists, e)) = Front(lists)
        /\ PathsIn(OnTop(lists, e)) = PathsIn(Front(lists)) \cup PathsOn(e)
    BY <1>3, <2>1, TopPaths
  <2> QED
    BY <2>1, <2>2 DEF e
<1> DEFINE H == Heard(n + 1)
           K == {m \in H : IfBetween(m, n + 1)}
<1> HIDE DEF H
<1>7. DirectiveAt(n) = "#if" => H = Heard(n) /\ K = Heard(n)
  BY <1>2 DEF H
<1>8. DirectiveAt(n) = "#else" => H = Kept /\ K = Kept
  BY <1>2 DEF H
<1>9. DirectiveAt(n) \notin {"#if", "#else"} => H = Heard(n) /\ K = Kept
  BY <1>2 DEF H
<1>10. \A l : Hold(l, n + 1) <=> AreLists(l) /\ PathsIn(l) = PathsOf(H) /\ PathsIn(Front(l)) = PathsOf(K)
  BY Zenon DEF Hold, H
<1> HIDE DEF K, Kept
<1> QED
  BY <1>3, <1>5, <1>6, <1>7, <1>8, <1>9, <1>10

\* And an include.
LEMMA IncludeHolds ==
  ASSUME NEW n, IsCode(n), Elided(n) \in Line, IsInclude(Elided(n)), NEW s, Hold(s.include_list, n)
  PROVE  LET lists == s.include_list
         IN  /\ Known(s, n) <=> IsAgain(n)
             /\ Known(s, n) \/ ~Recorded(n) => Hold(lists, n + 1)
             /\ ~Known(s, n) /\ Recorded(n) =>
                  Hold(OnTop(lists, Append(Last(lists), <<HeaderAt(n).path, n>>)), n + 1)
<1> DEFINE lists == s.include_list
           Kept == {m \in Heard(n) : IfBetween(m, n)}
           path == HeaderAt(n).path
<1>1. n \in Included
  BY DEF Included, IsCode
<1>2. DirectiveAt(n) # "#else" /\ DirectiveAt(n) # "#if"
  BY DirectiveIs
<1> DEFINE H == Heard(n + 1)
           K == {m \in H : IfBetween(m, n + 1)}
<1>3. /\ H = IF Recorded(n) THEN Heard(n) \cup {n} ELSE Heard(n)
      /\ \A m \in Heard(n) : IfBetween(m, n + 1) <=> IfBetween(m, n)
      /\ ~IfBetween(n, n + 1)
  <2>1. {m \in {n} : n \in Included /\ Recorded(n)} = IF Recorded(n) THEN {n} ELSE {}
    BY <1>1
  <2> QED
    BY <1>2, <2>1, HeardNext
<1>4. /\ AreLists(lists) /\ IsList(lists) /\ \A i \in DOMAIN lists : IsList(lists[i])
      /\ PathsIn(lists) = PathsOf(Heard(n)) /\ PathsIn(Front(lists)) = PathsOf(Kept)
  BY Zenon DEF Hold, AreLists
<1>5. Known(s, n) <=> path \in PathsOf(Heard(n))
  BY <1>4, KnownIs
<1>6. IsAgain(n) <=> path \in PathsOf(Heard(n))
  BY DEF IsAgain, PathsOf
<1>7. PathsOf(Heard(n) \cup {n}) = PathsOf(Heard(n)) \cup {path}
  BY DEF PathsOf
<1> HIDE DEF H, lists, path
<1>8. K = Kept
  BY <1>3
<1> DEFINE top == OnTop(lists, Append(Last(lists), <<path, n>>))
<1>9. /\ AreLists(top) /\ Front(top) = Front(lists)
      /\ PathsIn(top) = PathsIn(lists) \cup {path}
  <2>1. PathsIn(lists) = PathsIn(Front(lists)) \cup PathsOn(Last(lists)) /\ IsList(Last(lists))
    BY <1>4, <1>4, TopPaths, RecordPaths
  <2> DEFINE list == Append(Last(lists), <<path, n>>)
  <2>2. IsList(list) /\ PathsOn(list) = PathsOn(Last(lists)) \cup {path}
    BY <2>1, RecordPaths
  <2> HIDE DEF list
  <2>3. AreLists(OnTop(lists, list)) /\ Front(OnTop(lists, list)) = Front(lists)
          /\ PathsIn(OnTop(lists, list)) = PathsIn(Front(lists)) \cup PathsOn(list)
    BY <1>4, <2>2, TopPaths
  <2> QED
    BY <2>1, <2>2, <2>3 DEF list
<1>10. \A l : Hold(l, n + 1) <=> AreLists(l) /\ PathsIn(l) = PathsOf(H) /\ PathsIn(Front(l)) = PathsOf(K)
  BY Zenon DEF Hold, H
<1> HIDE DEF K, Kept, top
<1>11. Known(s, n) \/ ~Recorded(n) => Hold(lists, n + 1)
  <2>1. Known(s, n) \/ ~Recorded(n) => PathsOf(H) = PathsOf(Heard(n))
    BY <1>3, <1>5, <1>7
  <2> QED
    BY <1>4, <1>8, <1>10, <2>1
<1>12. ~Known(s, n) /\ Recorded(n) => Hold(top, n + 1)
  <2>1. Recorded(n) => PathsOf(H) = PathsOf(Heard(n)) \cup {path}
    BY <1>3, <1>7
  <2> QED
    BY <1>4, <1>8, <1>9, <1>10, <2>1
<1> QED
  BY <1>5, <1>6, <1>11, <1>12 DEF top, lists, path

\* What is known of the includes after a line that is none.
LEMMA OtherFollows ==
  ASSUME NEW n, IsCode(n), Elided(n) \in Line, ~IsInclude(Elided(n)), NEW s, IsIncludeState(s, n)
  PROVE  IsIncludeState(CheckLanguage(s, clean_lines, n).state, n + 1)
<1> DEFINE d == DirectiveAt(n)
           t == CheckLanguage(s, clean_lines, n).state
           lists == s.include_list
           made == CASE d = "#if" -> Append(lists, <<>>) [] d = "#else" -> OnTop(lists, <<>>) [] OTHER -> lists
<1>1. /\ s = [include_list |-> s.include_list, section |-> s.section, last_header |-> s.last_header]
      /\ Hold(lists, n)
      /\ s.section \in Nat /\ \A m \in Stretch(n) : SectionOf(m) <= s.section
      /\ s.section = INITIAL \/ \E m \in Stretch(n) : SectionOf(m) = s.section
  BY IncludeStateIs
<1>2. t = IF d = NONE THEN s ELSE ResetSection(s, d)
  <2>1. CheckLanguage(s, clean_lines, n) =
          [state |-> IF d = NONE THEN s ELSE ResetSection(s, d), errors |-> OffencesIn(Elided(n), n)]
    BY Zenon DEF CheckLanguage, Elided, DirectiveAt
  <2> HIDE DEF d
  <2> QED
    BY <2>1
<1>3. ResetSection(s, d) = [include_list |-> made, section |-> INITIAL, last_header |-> 0]
  BY Zenon DEF ResetSection
<1>4. Hold(made, n + 1) /\ (d = NONE => Hold(lists, n + 1))
  <2>1. d \in {"#if", "#else", "#endif", NONE} /\ NONE \notin {"#if", "#else", "#endif"}
    BY DirectiveIs
  <2>2. /\ d = "#if" => Hold(Append(lists, <<>>), n + 1)
        /\ d = "#else" => Hold(OnTop(lists, <<>>), n + 1)
        /\ d \notin {"#if", "#else"} => Hold(lists, n + 1)
    BY <1>1, DirectiveHolds
  <2> DEFINE a == Append(lists, <<>>)
             b == OnTop(lists, <<>>)
  <2> HIDE DEF d, lists, a, b
  <2>3. made = CASE d = "#if" -> a [] d = "#else" -> b [] OTHER -> lists
    BY DEF a, b
  <2> QED
    BY <2>1, <2>2, <2>3 DEF a, b
<1>5. /\ d # NONE => Stretch(n + 1) = {}
      /\ d = NONE => Stretch(n + 1) = Stretch(n)
  <2>1. {m \in {n} : n \in Included /\ Counts(n)} = {}
    BY DEF Included
  <2> QED
    BY <2>1, StretchNext
<1> HIDE DEF t, d, made
<1>6. CASE d = NONE
  <2>1. t = s
    BY <1>2, <1>6
  <2> QED
    BY <1>1, <1>4, <1>5, <1>6, <2>1, IncludeStateIs DEF t
<1>7. CASE d # NONE
  <2>1. t = [include_list |-> made, section |-> INITIAL, last_header |-> 0]
    BY <1>2, <1>3, <1>7
  <2>2. t.include_list = made /\ t.section = INITIAL
          /\ t = [include_list |-> t.include_list, section |-> t.section, last_header |-> t.last_header]
    BY <2>1
  <2>3. t.section \in Nat
    BY <2>2 DEF INITIAL
  <2>4. Hold(t.include_list, n + 1)
    BY <1>4, <2>2
  <2> QED
    BY <1>5, <1>7, <2>2, <2>3, <2>4, IncludeStateIs DEF t
<1> QED
  BY <1>6, <1>7

\* And after an include.
LEMMA IncludeFollows ==
  ASSUME NEW n, IsCode(n), Elided(n) \in Line, IsInclude(Elided(n)), NEW s, IsIncludeState(s, n)
  PROVE  /\ IsIncludeState(CheckLanguage(s, clean_lines, n).state, n + 1)
         /\ Known(s, n) <=> IsAgain(n)
         /\ OutOfOrder(s.section, TypeAt(n)) <=> IsLate(n)
<1> DEFINE t == CheckLanguage(s, clean_lines, n).state
           lists == s.include_list
           new == OnTop(lists, Append(Last(lists), <<HeaderAt(n).path, n>>))
           next == NextSection(s.section, TypeAt(n))
<1>1. /\ s = [include_list |-> s.include_list, section |-> s.section, last_header |-> s.last_header]
      /\ Hold(lists, n)
      /\ s.section \in Nat /\ \A m \in Stretch(n) : SectionOf(m) <= s.section
      /\ s.section = INITIAL \/ \E m \in Stretch(n) : SectionOf(m) = s.section
  BY IncludeStateIs
<1>2. /\ Known(s, n) <=> IsAgain(n)
      /\ Known(s, n) \/ ~Recorded(n) => Hold(lists, n + 1)
      /\ ~Known(s, n) /\ Recorded(n) => Hold(new, n + 1)
  BY <1>1, IncludeHolds
<1>3. /\ next \in Nat /\ (next = s.section \/ next = SectionOf(n))
      /\ SectionOf(n) <= next /\ \A m \in Stretch(n) : SectionOf(m) <= next
      /\ OutOfOrder(s.section, TypeAt(n)) <=> IsLate(n)
  BY <1>1, SectionFollows
<1>4. /\ Known(s, n) \/ ~Recorded(n) => t = s
      /\ ~Known(s, n) /\ Recorded(n) =>
           t = [include_list |-> new, section |-> next, last_header |-> HeaderAt(n).rank]
  BY <1>1, IncludeCases
<1>5. Counts(n) <=> Recorded(n) /\ ~Known(s, n)
  BY <1>2 DEF Counts
<1>6. Stretch(n + 1) = IF Recorded(n) /\ ~Known(s, n) THEN Stretch(n) \cup {n} ELSE Stretch(n)
  <2>1. DirectiveAt(n) = NONE /\ n \in Included
    BY DirectiveIs DEF Included, IsCode
  <2>2. Stretch(n + 1) = Stretch(n) \cup {m \in {n} : n \in Included /\ Counts(n)}
    BY <2>1, StretchNext
  <2>3. {m \in {n} : n \in Included /\ Counts(n)} = IF Counts(n) THEN {n} ELSE {}
    BY <2>1
  <2> QED
    BY <1>5, <2>2, <2>3
<1> HIDE DEF t, new, next
<1>7. IsIncludeState(t, n + 1)
  <2>1. CASE Known(s, n) \/ ~Recorded(n)
    <3>1. t = s /\ Stretch(n + 1) = Stretch(n)
      BY <1>4, <1>6, <2>1
    <3> QED
      BY <1>1, <1>2, <2>1, <3>1, IncludeStateIs
  <2>2. CASE ~Known(s, n) /\ Recorded(n)
    <3>1. t = [include_list |-> new, section |-> next, last_header |-> HeaderAt(n).rank]
      BY <1>4, <2>2
    <3>2. t.include_list = new /\ t.section = next
            /\ t = [include_list |-> t.include_list, section |-> t.section, last_header |-> t.last_header]
      BY <3>1
    <3>3. Stretch(n + 1) = Stretch(n) \cup {n}
      BY <1>6, <2>2
    <3>4. t.section \in Nat /\ \A m \in Stretch(n + 1) : SectionOf(m) <= t.section
      BY <1>3, <3>2, <3>3
    <3>5. t.section = INITIAL \/ \E m \in Stretch(n + 1) : SectionOf(m) = t.section
      BY <1>1, <1>3, <3>2, <3>3
    <3>6. Hold(t.include_list, n + 1)
      BY <1>2, <2>2, <3>2
    <3> QED
      BY <3>2, <3>4, <3>5, <3>6, IncludeStateIs
  <2> QED
    BY <2>1, <2>2
<1> QED
  BY <1>2, <1>3, <1>7 DEF t

-----------------------------------------------------------------------------
(* What is said of includes, line by line.                                 *)
\* While the lines stay, so does what is said of their includes.
LEMMA IncludesStay ==
  ASSUME clean_lines' = clean_lines, job' = job, todo' = todo, settings' = settings
  PROVE  /\ Included' = Included
         /\ \A n : (Foreign(n)' <=> Foreign(n)) /\ HeaderAt(n)' = HeaderAt(n)
         /\ \A n : Heard(n)' = Heard(n) /\ Stretch(n)' = Stretch(n) /\ SectionOf(n)' = SectionOf(n)
         /\ \A m, n : IfBetween(m, n)' <=> IfBetween(m, n)
         /\ \A n : (IsAgain(n)' <=> IsAgain(n)) /\ (Counts(n)' <=> Counts(n)) /\ (IsLate(n)' <=> IsLate(n))
<1>1. Lines' = Lines /\ File' = File
  BY DEF Lines, File
<1>2. \A n : Elided(n)' = Elided(n) /\ HeaderAt(n)' = HeaderAt(n)
  BY DEF Elided, HeaderAt
<1>3. Included' = Included
  BY <1>1, <1>2 DEF Included
<1>4. GetHeaderExtensions' = GetHeaderExtensions /\ GetNonHeaderExtensions' = GetNonHeaderExtensions
  BY DEF GetHeaderExtensions, GetNonHeaderExtensions, GetAllExtensions
<1>5. \A n : (Foreign(n)' <=> Foreign(n)) /\ (OwnHeader(n)' <=> OwnHeader(n))
  BY <1>1, <1>2, <1>4 DEF Foreign, OwnHeader
<1>6. \A n : Recorded(n)' <=> Recorded(n)
  BY <1>2, <1>5 DEF Recorded
<1>7. \A m, n : IfBetween(m, n)' <=> IfBetween(m, n)
  BY <1>2 DEF IfBetween
<1>8. \A m, n : Ended(m, n)' <=> Ended(m, n)
  BY <1>2, <1>7 DEF Ended
<1>9. \A n : Heard(n)' = Heard(n)
  BY <1>3, <1>6, <1>8 DEF Heard
<1>10. \A n : IsAgain(n)' <=> IsAgain(n)
  BY <1>2, <1>9 DEF IsAgain
<1>11. \A n : Counts(n)' <=> Counts(n)
  BY <1>6, <1>10 DEF Counts
<1>12. \A n : Stretch(n)' = Stretch(n)
  BY <1>2, <1>3, <1>11 DEF Stretch
<1>13. \A n : OfSystem(n)' <=> OfSystem(n)
  BY <1>2 DEF OfSystem
<1>14. \A n : SectionOf(n)' = SectionOf(n)
  BY <1>1, <1>2, <1>12, <1>13 DEF SectionOf
<1>15. \A n : IsLate(n)' <=> IsLate(n)
  BY <1>12, <1>13, <1>14 DEF IsLate
<1> QED
  BY <1>2, <1>3, <1>5, <1>7, <1>9, <1>10, <1>11, <1>12, <1>14, <1>15

\* And a state that tells of the includes before a line does so behind the step.
LEMMA IncludeStatePrimed ==
  ASSUME clean_lines' = clean_lines, job' = job, todo' = todo, settings' = settings,
         IsIncludeState(include_state', linenum')
  PROVE  IsIncludeState(include_state, linenum)'
<1> DEFINE s == include_state'
           n == linenum'
           Kept(k) == {m \in Heard(k) : IfBetween(m, k)}
<1>1. /\ s = [include_list |-> s.include_list, section |-> s.section, last_header |-> s.last_header]
      /\ IsList(s.include_list) /\ s.include_list # <<>>
      /\ \A i \in DOMAIN s.include_list : IsList(s.include_list[i])
      /\ PathsIn(s.include_list) = PathsOf(Heard(n))
      /\ PathsIn(Front(s.include_list)) = PathsOf(Kept(n))
      /\ s.section \in Nat /\ \A m \in Stretch(n) : SectionOf(m) <= s.section
      /\ s.section = INITIAL \/ \E m \in Stretch(n) : SectionOf(m) = s.section
  BY Zenon DEF IsIncludeState
<1>2. /\ \A m : HeaderAt(m)' = HeaderAt(m) /\ SectionOf(m)' = SectionOf(m)
      /\ \A m, k : IfBetween(m, k)' <=> IfBetween(m, k)
      /\ \A k : Heard(k)' = Heard(k) /\ Stretch(k)' = Stretch(k)
  BY IncludesStay
<1>3. Heard(linenum)' = Heard(n) /\ Stretch(linenum)' = Stretch(n)
  BY <1>2
<1>4. {m \in Heard(linenum) : IfBetween(m, linenum)}' = Kept(n)
  BY <1>2, <1>3
<1>5. /\ PathsOf(Heard(linenum))' = PathsOf(Heard(n))
      /\ PathsOf({m \in Heard(linenum) : IfBetween(m, linenum)})' = PathsOf(Kept(n))
  BY <1>3, <1>4, <1>2 DEF PathsOf
<1> HIDE DEF Kept
<1>6. /\ PathsIn(s.include_list) = PathsOf(Heard(linenum))'
      /\ PathsIn(Front(s.include_list)) = PathsOf({m \in Heard(linenum) : IfBetween(m, linenum)})'
  BY <1>1, <1>5
<1>7. /\ \A m \in Stretch(linenum)' : SectionOf(m)' <= s.section
      /\ s.section = INITIAL \/ \E m \in Stretch(linenum)' : SectionOf(m)' = s.section
  BY <1>1, <1>2, <1>3
<1> QED
  BY <1>1, <1>6, <1>7 DEF IsIncludeState

\* A file without lines behind it has no includes.
LEMMA IncludeBegins ==
  ASSUME Inv, ProcessFileData
  PROVE  IncludeInv'
<1>1. /\ linenum' = 1 /\ include_state' = _IncludeState /\ pc' = "lines" /\ job' = job
  BY DEF ProcessFileData
<1>2. clean_lines'.elided \in Seq(Line)
  BY <1>1, FileBegins DEF LineInv, Line
<1>3. Lines' = 1..Len(clean_lines'.elided) /\ Len(clean_lines'.elided) \in Nat
  BY <1>2, LenProperties DEF Lines
<1>4. \A m \in Lines' : ~(m < linenum')
  BY <1>1, <1>3
<1>5. \A m \in Included' : ~(m < linenum')
  BY <1>4 DEF Included
<1>6. Heard(linenum)' = {} /\ Stretch(linenum)' = {}
  <2>1. Heard(linenum)' = {m \in Included : m < linenum /\ Recorded(m) /\ ~Ended(m, linenum)}'
    BY DEF Heard
  <2>2. Stretch(linenum)' =
          {m \in Included : m < linenum /\ Counts(m)
                              /\ ~\E k \in m..(linenum - 1) : Directive(Elided(k)) # NONE}'
    BY DEF Stretch
  <2> QED
    BY <1>5, <2>1, <2>2
<1>7. IsIncludeState(include_state, linenum)'
  <2> DEFINE s == include_state'
  <2>1. s = [include_list |-> << <<>> >>, section |-> INITIAL, last_header |-> 0]
    BY <1>1 DEF _IncludeState
  <2>2. /\ AreLists(<< <<>> >>) /\ Front(<< <<>> >>) = <<>>
        /\ PathsIn(<< <<>> >>) = {} /\ PathsIn(<<>>) = {}
    <3> DEFINE e == <<>>
    <3>1. IsList(e) /\ Range(e) = {} /\ DOMAIN e = {}
      <4>1. IsList(e) /\ Range(e) = {}
        BY ShortLists, ShortRanges
      <4> QED
        BY <4>1
    <3>2. Append(e, e) = << <<>> >>
      OBVIOUS
    <3> HIDE DEF e
    <3>3. PathsOn(e) = {} /\ PathsIn(e) = {}
      BY <3>1 DEF PathsOn, PathsIn
    <3>4. /\ AreLists(Append(e, e)) /\ Front(Append(e, e)) = e
          /\ PathsIn(Append(e, e)) = PathsIn(e) \cup PathsOn(e)
      BY <3>1, AppendPaths
    <3> QED
      BY <3>2, <3>3, <3>4 DEF e
  <2>3. /\ s = [include_list |-> s.include_list, section |-> s.section, last_header |-> s.last_header]
        /\ s.include_list = << <<>> >> /\ s.section = INITIAL
    BY <2>1
  <2>4. PathsOf(Heard(linenum))' = {} /\ PathsOf({m \in Heard(linenum) : IfBetween(m, linenum)})' = {}
    BY <1>6 DEF PathsOf
  <2>5. s.section \in Nat
    BY <2>3 DEF INITIAL
  <2> QED
    BY <1>6, <2>2, <2>3, <2>4, <2>5 DEF IsIncludeState, AreLists
<1>8. Once' <=> Once
  BY <1>1 DEF Once, IsInjective
<1>9. Once => ErrorsOf(BuildInclude)' = {} /\ ErrorsOf(IncludeOrder)' = {}
  BY FileBegins DEF Watched
<1> DEFINE errs(c) == ErrorsOf(c)'
<1> HIDE DEF errs
<1>10. Once => /\ errs(BuildInclude) = {n \in Included : n < linenum /\ (Foreign(n) \/ IsAgain(n))
                                                           /\ Passes(n, BuildInclude, 4)}'
               /\ errs(IncludeOrder) = {n \in Included : n < linenum /\ Counts(n) /\ IsLate(n)
                                                           /\ Passes(n, IncludeOrder, 4)}'
  BY <1>5, <1>9 DEF errs
<1> QED
  BY <1>7, <1>8, <1>10 DEF IncludeInv, errs

\* What an include line reports is right.
LEMMA IncludesAreReported ==
  ASSUME NEW n, IsCode(n), Elided(n) \in Line, NEW s, IsIncludeState(s, n)
  PROVE  LET errors == CheckLanguage(s, clean_lines, n).errors
         IN  /\ IsTold(errors, BuildInclude) <=> n \in Included /\ (Foreign(n) \/ IsAgain(n))
             /\ IsTold(errors, IncludeOrder) <=> n \in Included /\ Counts(n) /\ IsLate(n)
             /\ \A e \in Range(errors) : e.category \in {BuildInclude, IncludeOrder} => e.confidence = 4
<1> DEFINE errors == CheckLanguage(s, clean_lines, n).errors
<1>1. s = [include_list |-> s.include_list, section |-> s.section, last_header |-> s.last_header]
  BY IncludeStateIs
<1>2. n \in Included <=> IsInclude(Elided(n))
  BY DEF Included, IsCode
<1>3. BuildInclude \in Watched /\ IncludeOrder \in Watched
  BY DEF Watched
<1>4. CASE IsInclude(Elided(n))
  <2>1. /\ Known(s, n) <=> IsAgain(n)
        /\ OutOfOrder(s.section, TypeAt(n)) <=> IsLate(n)
    BY <1>4, IncludeFollows
  <2>2. /\ IsTold(errors, BuildInclude) <=> Known(s, n) \/ Foreign(n)
        /\ IsTold(errors, IncludeOrder) <=>
             ~Known(s, n) /\ Recorded(n) /\ OutOfOrder(s.section, TypeAt(n))
        /\ \A e \in Range(errors) : e.category \in Watched => e.confidence = 4
    BY <1>1, <1>4, IncludeCases
  <2> HIDE DEF errors
  <2> QED
    BY <1>2, <1>3, <1>4, <2>1, <2>2 DEF Counts, errors
<1>5. CASE ~IsInclude(Elided(n))
  <2>1. \A e \in Range(errors) : e.category \notin Watched
    BY <1>1, <1>5, OthersSayNothing
  <2> HIDE DEF errors
  <2> QED
    BY <1>2, <1>3, <1>5, <2>1 DEF IsTold, errors
<1> QED
  BY <1>4, <1>5

\* A line that is read.
LEMMA IncludeReads ==
  ASSUME Inv, ProcessLine
  PROVE  IncludeInv'
<1> DEFINE Twice(n) == (Foreign(n) \/ IsAgain(n)) /\ Passes(n, BuildInclude, 4)
           Late(n)  == Counts(n) /\ IsLate(n) /\ Passes(n, IncludeOrder, 4)
           length == CheckForFunctionLengths(function_state, clean_lines.lines, linenum, File.indented)
           language == CheckLanguage(include_state, clean_lines, linenum)
           twice == ErrorsOf(BuildInclude)'
           late  == ErrorsOf(IncludeOrder)'
<1>1. /\ IsCode(linenum) /\ linenum \in Nat \ {0} /\ linenum' = linenum + 1 /\ Elided(linenum) \in Line
      /\ pc = "lines" /\ pc' = "lines" /\ clean_lines' = clean_lines /\ job' = job /\ todo' = todo
  BY NextLine
<1>2. settings' = settings
  BY DEF ProcessLine, config
<1>3. Lines' = Lines /\ (IsCalm' <=> IsCalm) /\ (Once' <=> Once) /\ Included' = Included
  BY <1>1, <1>2, LinesStay, IncludesStay
<1> SUFFICES ASSUME IsCalm
             PROVE  /\ IsIncludeState(include_state, linenum)'
                    /\ Once => /\ twice = {n \in Included : n < linenum /\ Twice(n)}'
                               /\ late = {n \in Included : n < linenum /\ Late(n)}'
  BY <1>3 DEF IncludeInv
<1>4. /\ IsIncludeState(include_state, linenum)
      /\ Once => /\ ErrorsOf(BuildInclude) = {n \in Included : n < linenum /\ Twice(n)}
                 /\ ErrorsOf(IncludeOrder) = {n \in Included : n < linenum /\ Late(n)}
  BY <1>1 DEF Inv, IncludeInv
<1>5. include_state' = language.state
  BY LineIsChecked DEF StatesFollow
<1>6. ErrorsGrow
  BY LineIsChecked
<1>7. IsIncludeState(include_state, linenum)'
  <2>1. IsIncludeState(language.state, linenum + 1)
    BY <1>1, <1>4, OtherFollows, IncludeFollows
  <2> HIDE DEF language
  <2> QED
    BY <1>1, <1>2, <1>5, <2>1, IncludeStatePrimed
<1>8. /\ IsTold(language.errors, BuildInclude) <=>
           linenum \in Included /\ (Foreign(linenum) \/ IsAgain(linenum))
      /\ IsTold(language.errors, IncludeOrder) <=> linenum \in Included /\ Counts(linenum) /\ IsLate(linenum)
      /\ \A e \in Range(language.errors) : e.category \in {BuildInclude, IncludeOrder} => e.confidence = 4
  BY <1>1, <1>4, IncludesAreReported
<1>9. \A e \in Range(length.errors) : e.category = FnSize
  <2>1. IsFunctionState(function_state, linenum)
    BY <1>1 DEF Inv, FunctionInv
  <2> QED
    BY <1>1, <2>1, LengthsAreReported DEF Inv
<1>10. LineErrors = Range(length.errors) \cup Range(language.errors)
  BY DEF LineErrors
<1>11. /\ BuildInclude # FnSize /\ IncludeOrder # FnSize
       /\ BuildInclude \in Watched /\ IncludeOrder \in Watched
  BY OtherCategories DEF Watched, BuildInclude, IncludeOrder, FnSize
<1> HIDE DEF length, language
<1>12. /\ (\E e \in LineErrors : e.category = BuildInclude /\ Passes(linenum, BuildInclude, e.confidence))
            <=> linenum \in Included /\ Twice(linenum)
       /\ (\E e \in LineErrors : e.category = IncludeOrder /\ Passes(linenum, IncludeOrder, e.confidence))
            <=> linenum \in Included /\ Late(linenum)
  BY <1>8, <1>9, <1>10, <1>11 DEF IsTold
<1>13. /\ twice = ErrorsOf(BuildInclude) \cup {n \in {linenum} : linenum \in Included /\ Twice(linenum)}
       /\ late = ErrorsOf(IncludeOrder) \cup {n \in {linenum} : linenum \in Included /\ Late(linenum)}
  <2>1. /\ twice = ErrorsOf(BuildInclude) \cup {n \in {linenum} : \E e \in LineErrors :
                     e.category = BuildInclude /\ Passes(linenum, BuildInclude, e.confidence)}
        /\ late = ErrorsOf(IncludeOrder) \cup {n \in {linenum} : \E e \in LineErrors :
                     e.category = IncludeOrder /\ Passes(linenum, IncludeOrder, e.confidence)}
    BY <1>6, <1>11 DEF ErrorsGrow
  <2> HIDE DEF twice, late, Twice, Late
  <2> QED
    BY <1>12, <2>1
<1>14. \A n : (Twice(n)' <=> Twice(n)) /\ (Late(n)' <=> Late(n))
  BY <1>1, <1>2, LinesStay, IncludesStay
<1>15. Included \subseteq Nat
  BY <1>1, CodeIs DEF Included
<1> HIDE DEF twice, late
<1>16. /\ {n \in Included : n < linenum /\ Twice(n)}' = {n \in Included : n < linenum + 1 /\ Twice(n)}
       /\ {n \in Included : n < linenum /\ Late(n)}' = {n \in Included : n < linenum + 1 /\ Late(n)}
  BY <1>1, <1>3, <1>14
<1> HIDE DEF Twice, Late
<1>17. \A n \in Included : n < linenum + 1 <=> n < linenum \/ n = linenum
  BY <1>1, <1>15
<1>18. /\ {n \in Included : n < linenum + 1 /\ Twice(n)} = {n \in Included : n < linenum /\ Twice(n)}
            \cup {n \in {linenum} : linenum \in Included /\ Twice(linenum)}
       /\ {n \in Included : n < linenum + 1 /\ Late(n)} = {n \in Included : n < linenum /\ Late(n)}
            \cup {n \in {linenum} : linenum \in Included /\ Late(linenum)}
  BY <1>17
<1>19. Once => /\ twice = {n \in Included : n < linenum + 1 /\ Twice(n)}
               /\ late = {n \in Included : n < linenum + 1 /\ Late(n)}
  BY <1>4, <1>13, <1>18
<1> QED
  BY <1>7, <1>16, <1>19 DEF Twice, Late

\* Every step.
LEMMA IncludeStep ==
  ASSUME Inv, [Next]_vars
  PROVE  IncludeInv'
<1>1. CASE ProcessFileData
  BY <1>1, IncludeBegins
<1>2. CASE ProcessLine
  BY <1>2, IncludeReads
<1>3. CASE ~ProcessFileData /\ ~ProcessLine
  <2>1. \/ pc' # "lines"
        \/ pc' = pc /\ UNCHANGED <<job, config, todo, text, reported>>
    BY <1>3 DEF Next, vars, counts, config, ParseArguments, BadArguments, BackupFilters,
         ProcessConfigOverrides, AddFilters, BadFilter, SkipInput, IgnoreFile, EndOfFile,
         RestoreFilters, Finish, Exited, Die, Inv, ConfigInv
  <2>2. CASE pc' # "lines"
    BY <2>2 DEF IncludeInv
  <2>3. CASE pc' = pc /\ UNCHANGED <<job, config, todo, text, reported>>
    <3>1. UNCHANGED <<pc, job, settings, todo, reported, clean_lines, linenum, include_state>>
      BY <2>3 DEF text, config
    <3>2. (IsCalm' <=> IsCalm) /\ (Once' <=> Once) /\ Included' = Included
      BY <3>1, LinesStay, IncludesStay
    <3>3. pc = "lines" /\ IsCalm => IsIncludeState(include_state, linenum)'
      BY <3>1, IncludeStatePrimed DEF Inv, IncludeInv
    <3>4. \A c : ErrorsOf(c)' = ErrorsOf(c)
      BY <3>1 DEF ErrorsOf
    <3> DEFINE Twice(n) == (Foreign(n) \/ IsAgain(n)) /\ Passes(n, BuildInclude, 4)
               Late(n)  == Counts(n) /\ IsLate(n) /\ Passes(n, IncludeOrder, 4)
               S == {n \in Included : n < linenum /\ Twice(n)}
               T == {n \in Included : n < linenum /\ Late(n)}
    <3>5. \A n : (Twice(n)' <=> Twice(n)) /\ (Late(n)' <=> Late(n))
      BY <3>1, LinesStay, IncludesStay
    <3>6. S' = S /\ T' = T
      BY <3>1, <3>2, <3>5
    <3>7. pc = "lines" /\ IsCalm /\ Once => ErrorsOf(BuildInclude) = S /\ ErrorsOf(IncludeOrder) = T
      BY DEF Inv, IncludeInv
    <3>8. pc' = "lines" /\ IsCalm' /\ Once' => ErrorsOf(BuildInclude)' = S' /\ ErrorsOf(IncludeOrder)' = T'
      BY <3>1, <3>2, <3>4, <3>6, <3>7
    <3> QED
      BY <3>1, <3>2, <3>3, <3>8 DEF IncludeInv
  <2> QED
    BY <2>1, <2>2, <2>3
<1> QED
  BY <1>1, <1>2, <1>3

-----------------------------------------------------------------------------
(* The branches of conditionals.                                           *)
\* How many conditionals are open behind a line.
LEMMA DepthIs ==
  ASSUME NEW k \in Nat
  PROVE  /\ Depth(k) \in Int
         /\ \A l \in Nat : k <= l /\ (\A i \in (k + 1)..l : DirectiveAt(i) # "#if") => Depth(l) <= Depth(k)
         /\ k # 0 /\ DirectiveAt(k) = "#if" => Depth(k) = Depth(k - 1) + 1
<1> DEFINE Ifs(l) == {i \in 1..l : DirectiveAt(i) = "#if"}
           Endifs(l) == {i \in 1..l : DirectiveAt(i) = "#endif"}
<1>1. \A l : Depth(l) = Cardinality(Ifs(l)) - Cardinality(Endifs(l))
  BY Zenon DEF Depth, DirectiveAt
<1>2. \A l \in Nat : /\ IsFiniteSet(Ifs(l)) /\ Cardinality(Ifs(l)) \in Nat
                     /\ IsFiniteSet(Endifs(l)) /\ Cardinality(Endifs(l)) \in Nat
  <2> TAKE l \in Nat
  <2>1. IsFiniteSet(1..l)
    BY FS_Interval
  <2> QED
    BY <2>1, FS_Subset, FS_CardinalityType
<1>3. Depth(k) \in Int
  <2> HIDE DEF Ifs, Endifs
  <2> QED
    BY <1>1, <1>2
<1>4. \A l \in Nat : k <= l /\ (\A i \in (k + 1)..l : DirectiveAt(i) # "#if") => Depth(l) <= Depth(k)
  <2> SUFFICES ASSUME NEW l \in Nat, k <= l, \A i \in (k + 1)..l : DirectiveAt(i) # "#if"
               PROVE  Depth(l) <= Depth(k)
    OBVIOUS
  <2>1. \A i \in 1..l : i \in 1..k \/ i \in (k + 1)..l
    OBVIOUS
  <2>2. \A i \in 1..k : i \in 1..l
    OBVIOUS
  <2>3. Ifs(l) = Ifs(k)
    BY <2>1, <2>2
  <2>4. Endifs(k) \subseteq Endifs(l)
    BY <2>2
  <2> HIDE DEF Ifs, Endifs
  <2>5. Cardinality(Endifs(k)) <= Cardinality(Endifs(l))
    BY <1>2, <2>4, FS_Subset
  <2> QED
    BY <1>1, <1>2, <2>3, <2>5
<1>5. k # 0 /\ DirectiveAt(k) = "#if" => Depth(k) = Depth(k - 1) + 1
  <2> SUFFICES ASSUME k # 0, DirectiveAt(k) = "#if" PROVE Depth(k) = Depth(k - 1) + 1
    OBVIOUS
  <2>1. \A i : i \in 1..k <=> i = k \/ i \in 1..(k - 1)
    OBVIOUS
  <2>2. k \notin 1..(k - 1) /\ k - 1 \in Nat
    OBVIOUS
  <2>3. Ifs(k) = Ifs(k - 1) \cup {k} /\ k \notin Ifs(k - 1) /\ Endifs(k) = Endifs(k - 1)
    BY <2>1, <2>2
  <2> HIDE DEF Ifs, Endifs
  <2>4. Cardinality(Ifs(k)) = Cardinality(Ifs(k - 1)) + 1
    <3> DEFINE S == Ifs(k - 1)
    <3>1. IsFiniteSet(S)
      BY <1>2, <2>2
    <3> HIDE DEF S
    <3>2. k \notin S => Cardinality(S \cup {k}) = Cardinality(S) + 1
      BY <3>1, FS_AddElement
    <3> QED
      BY <2>3, <3>2 DEF S
  <2>5. /\ Cardinality(Ifs(k - 1)) \in Nat /\ Cardinality(Endifs(k - 1)) \in Nat
        /\ Cardinality(Endifs(k)) = Cardinality(Endifs(k - 1))
    BY <1>2, <2>2, <2>3
  <2> QED
    BY <1>1, <2>4, <2>5
<1> QED
  BY <1>3, <1>4, <1>5

\* Where conditionals are not nested, it is the #else of its own that ends a branch.
LEMMA BranchesEnd ==
  ASSUME Flat, Lines \subseteq Nat \ {0}, \A i \in Nat \ {0} : \A j \in Lines : i <= j => i \in Lines,
         NEW m \in Lines, NEW n \in Lines, m < n, DirectiveAt(n) # "#else"
  PROVE  Ended(m, n) <=> \E e \in m..n : ElseOf(m, e)
<1> DEFINE Else(e) == DirectiveAt(e) = "#else"
           If(e) == DirectiveAt(e) = "#if"
<1>1. m \in Nat \ {0} /\ n \in Nat \ {0} /\ \A k \in m..n : k \in Lines /\ k \in Nat \ {0}
  OBVIOUS
<1>2. \A e : IfBetween(m, e) <=> \E k \in (m + 1)..(e - 1) : If(k)
  BY Zenon DEF IfBetween, DirectiveAt
<1>3. Ended(m, n) <=> \E e \in (m + 1)..(n - 1) : Else(e) /\ ~IfBetween(m, e)
  BY Zenon DEF Ended, DirectiveAt
<1>4. \A e : ElseOf(m, e) <=> m < e /\ Else(e) /\ Depth(e) = Depth(m) /\ \A k \in m..e : Depth(k) >= Depth(m)
  BY Zenon DEF ElseOf, DirectiveAt
<1>5. \A k \in Lines : Depth(k) \in Int /\ Depth(k) <= 1 /\ (Else(k) => Depth(k) >= 1)
  <2>1. \A k \in Lines : Depth(k) >= IF Else(k) THEN 1 ELSE 0
    BY Zenon DEF Flat, Balanced, DirectiveAt
  <2>2. \A k \in Lines : Depth(k) \in Int
    BY DepthIs
  <2>3. \A k \in Lines : Depth(k) <= 1
    BY DEF Flat
  <2> HIDE DEF Else
  <2> QED
    BY <2>1, <2>2, <2>3
<1>6. If(n) => ~Else(n)
  OBVIOUS
<1>7. \A k : If(k) => ~Else(k)
  OBVIOUS
<1>8. ASSUME NEW e \in (m + 1)..(n - 1), Else(e), ~IfBetween(m, e)
      PROVE  ElseOf(m, e)
  <2>1. e \in Lines /\ e \in Nat /\ m < e
    BY <1>1
  <2>2. \A k \in (m + 1)..e : ~If(k)
    <3>1. \A k \in (m + 1)..e : k = e \/ k \in (m + 1)..(e - 1)
      BY <1>1, <2>1
    <3> QED
      BY <1>2, <1>7, <1>8, <3>1
  <2>3. ASSUME NEW k \in m..e PROVE Depth(e) <= Depth(k) /\ k \in Lines
    <3>1. k \in Nat /\ k <= e /\ k \in Lines
      BY <1>1, <2>1
    <3>2. \A i \in (k + 1)..e : i \in (m + 1)..e
      BY <1>1, <2>1
    <3>3. \A i \in (k + 1)..e : DirectiveAt(i) # "#if"
      BY <2>2, <3>2
    <3> QED
      BY <2>1, <3>1, <3>3, DepthIs
  <2>4. m \in m..e
    BY <1>1, <2>1
  <2>5. Depth(e) = 1 /\ Depth(m) = 1
    <3>1. Depth(e) <= Depth(m)
      BY <2>3, <2>4
    <3> QED
      BY <1>5, <1>8, <2>1, <3>1
  <2>6. \A k \in m..e : Depth(k) >= Depth(m)
    BY <1>5, <2>3, <2>5
  <2> QED
    BY <1>4, <1>8, <2>1, <2>5, <2>6
<1>9. ASSUME NEW e \in m..n, ElseOf(m, e)
      PROVE  e \in (m + 1)..(n - 1) /\ Else(e) /\ ~IfBetween(m, e)
  <2>1. m < e /\ Else(e) /\ Depth(e) = Depth(m) /\ \A k \in m..e : Depth(k) >= Depth(m)
    BY <1>4, <1>9
  <2>2. e # n /\ e \in Lines /\ e \in Nat
    BY <1>1, <2>1
  <2>3. e \in (m + 1)..(n - 1)
    BY <1>1, <2>1, <2>2
  <2>4. Depth(m) = 1
    BY <1>5, <2>1, <2>2
  <2>5. ASSUME NEW k \in (m + 1)..(e - 1), If(k) PROVE FALSE
    <3>1. k \in Lines /\ k \in Nat /\ k # 0 /\ k - 1 \in m..e /\ k - 1 \in Lines
      BY <1>1, <2>2, <2>3
    <3>2. Depth(k) = Depth(k - 1) + 1
      BY <2>5, <3>1, DepthIs
    <3>3. Depth(k - 1) >= 1
      BY <2>1, <2>4, <3>1
    <3> QED
      BY <1>5, <3>1, <3>2, <3>3
  <2> QED
    BY <1>2, <2>1, <2>3, <2>5
<1> HIDE DEF Else
<1> QED
  BY <1>1, <1>3, <1>8, <1>9

-----------------------------------------------------------------------------
(* The blocks of the first branches.                                       *)
\* The blocks of the first branches.
FirstRead(n) == BlocksRead(FirstBranches)[n]

\* While the lines stay, so does what is said of their conditionals.
LEMMA BranchesStay ==
  ASSUME clean_lines' = clean_lines
  PROVE  /\ \A k : Depth(k)' = Depth(k) /\ (InElse(k)' <=> InElse(k)) /\ FirstRead(k)' = FirstRead(k)
         /\ \A i, k : HasElse(i, k)' <=> HasElse(i, k)
         /\ (Balanced' <=> Balanced) /\ (ArgumentsStandAlone' <=> ArgumentsStandAlone)
<1>1. Lines' = Lines /\ \A k : Elided(k)' = Elided(k)
  BY DEF Lines, Elided
<1>2. \A k : Depth(k)' = Depth(k)
  BY <1>1 DEF Depth
<1>3. \A i, k : HasElse(i, k)' <=> HasElse(i, k)
  BY <1>1, <1>2 DEF HasElse
<1>4. \A k : InElse(k)' <=> InElse(k)
  BY <1>2, <1>3 DEF InElse
<1>5. FirstBranches' = FirstBranches
  BY <1>1, <1>4 DEF FirstBranches
<1>6. \A k : FirstRead(k)' = FirstRead(k)
  BY <1>5 DEF FirstRead
<1>7. Balanced' <=> Balanced
  BY <1>1, <1>2 DEF Balanced
<1>8. ArgumentsStandAlone' <=> ArgumentsStandAlone
  BY <1>1, <1>4, <1>5 DEF ArgumentsStandAlone
<1> QED
  BY <1>2, <1>3, <1>4, <1>6, <1>7, <1>8

\* How often a directive comes up to a line.
LEMMA CountUpTo ==
  ASSUME NEW k \in Nat \ {0}, NEW d
  PROVE  LET upto(l) == {i \in 1..l : DirectiveAt(i) = d}
         IN  /\ Cardinality(upto(k)) \in Nat /\ Cardinality(upto(k - 1)) \in Nat
             /\ Cardinality(upto(k)) = Cardinality(upto(k - 1)) + (IF DirectiveAt(k) = d THEN 1 ELSE 0)
<1> DEFINE upto(l) == {i \in 1..l : DirectiveAt(i) = d}
<1>1. \A i : i \in 1..k <=> i = k \/ i \in 1..(k - 1)
  OBVIOUS
<1>2. k \notin 1..(k - 1) /\ k - 1 \in Nat
  OBVIOUS
<1>3. IsFiniteSet(1..k) /\ IsFiniteSet(1..(k - 1))
  BY <1>2, FS_Interval
<1>4. IsFiniteSet(upto(k)) /\ IsFiniteSet(upto(k - 1))
  BY <1>3, FS_Subset
<1>5. Cardinality(upto(k)) \in Nat /\ Cardinality(upto(k - 1)) \in Nat
  BY <1>4, FS_CardinalityType
<1>6. ASSUME DirectiveAt(k) = d PROVE Cardinality(upto(k)) = Cardinality(upto(k - 1)) + 1
  <2>1. upto(k) = upto(k - 1) \cup {k} /\ k \notin upto(k - 1)
    BY <1>1, <1>2, <1>6
  <2> DEFINE S == upto(k - 1)
  <2>2. IsFiniteSet(S) /\ k \notin S /\ upto(k) = S \cup {k}
    BY <1>4, <2>1
  <2> HIDE DEF S, upto
  <2>3. Cardinality(S \cup {k}) = Cardinality(S) + 1
    BY <2>2, FS_AddElement
  <2> QED
    BY <2>2, <2>3 DEF S
<1>7. ASSUME DirectiveAt(k) # d PROVE upto(k) = upto(k - 1)
  BY <1>1, <1>7
<1> DEFINE b == Cardinality(upto(k))
           c == Cardinality(upto(k - 1))
           is == DirectiveAt(k) = d
<1>8. b \in Nat /\ c \in Nat /\ (is => b = c + 1) /\ (~is => b = c)
  BY <1>5, <1>6, <1>7, Zenon
<1>9. b = c + (IF is THEN 1 ELSE 0)
  <2> HIDE DEF b, c, is
  <2> QED
    BY <1>8
<1> QED
  BY <1>5, <1>9, Zenon

\* What a line does to how many conditionals are open.
LEMMA DepthSteps ==
  ASSUME NEW k \in Nat \ {0}
  PROVE  /\ Depth(k) \in Int /\ Depth(k - 1) \in Int
         /\ DirectiveAt(k) = "#if" => Depth(k) = Depth(k - 1) + 1
         /\ DirectiveAt(k) = "#endif" => Depth(k) = Depth(k - 1) - 1
         /\ DirectiveAt(k) \notin {"#if", "#endif"} => Depth(k) = Depth(k - 1)
<1> DEFINE Ifs(l) == {i \in 1..l : DirectiveAt(i) = "#if"}
           Endifs(l) == {i \in 1..l : DirectiveAt(i) = "#endif"}
<1>1. \A l : Depth(l) = Cardinality(Ifs(l)) - Cardinality(Endifs(l))
  BY Zenon DEF Depth, DirectiveAt
<1>2. /\ Cardinality(Ifs(k)) \in Nat /\ Cardinality(Ifs(k - 1)) \in Nat
      /\ Cardinality(Ifs(k)) = Cardinality(Ifs(k - 1)) + (IF DirectiveAt(k) = "#if" THEN 1 ELSE 0)
  BY CountUpTo
<1>3. /\ Cardinality(Endifs(k)) \in Nat /\ Cardinality(Endifs(k - 1)) \in Nat
      /\ Cardinality(Endifs(k)) = Cardinality(Endifs(k - 1)) + (IF DirectiveAt(k) = "#endif" THEN 1 ELSE 0)
  BY CountUpTo
<1> HIDE DEF Ifs, Endifs
<1> QED
  BY <1>1, <1>2, <1>3

\* What it does to the branches behind their #else.
LEMMA ElseSteps ==
  ASSUME NEW k \in Nat \ {0}
  PROVE  \A i : HasElse(i, k) <=> /\ Depth(k) >= i
                                  /\ HasElse(i, k - 1) \/ (DirectiveAt(k) = "#else" /\ Depth(k) = i)
<1> SUFFICES ASSUME NEW i
             PROVE  HasElse(i, k) <=> /\ Depth(k) >= i
                                      /\ HasElse(i, k - 1) \/ (DirectiveAt(k) = "#else" /\ Depth(k) = i)
  OBVIOUS
<1>1. \A l : HasElse(i, l) <=> \E m \in 1..l : /\ DirectiveAt(m) = "#else" /\ Depth(m) = i
                                               /\ \A j \in m..l : Depth(j) >= i
  BY Zenon DEF HasElse, DirectiveAt
<1>2. Depth(k) \in Int
  BY DepthSteps
<1>3. ASSUME HasElse(i, k)
      PROVE  Depth(k) >= i /\ (HasElse(i, k - 1) \/ (DirectiveAt(k) = "#else" /\ Depth(k) = i))
  <2>1. PICK m \in 1..k : DirectiveAt(m) = "#else" /\ Depth(m) = i /\ \A j \in m..k : Depth(j) >= i
    BY <1>1, <1>3
  <2>2. k \in m..k /\ \A j \in m..(k - 1) : j \in m..k
    OBVIOUS
  <2>3. m # k => m \in 1..(k - 1)
    OBVIOUS
  <2> QED
    BY <1>1, <2>1, <2>2, <2>3
<1>4. ASSUME Depth(k) >= i, HasElse(i, k - 1)
      PROVE  HasElse(i, k)
  <2>1. PICK m \in 1..(k - 1) : DirectiveAt(m) = "#else" /\ Depth(m) = i /\ \A j \in m..(k - 1) : Depth(j) >= i
    BY <1>1, <1>4
  <2>2. m \in 1..k /\ \A j \in m..k : j = k \/ j \in m..(k - 1)
    OBVIOUS
  <2> QED
    BY <1>1, <1>4, <2>1, <2>2
<1>5. ASSUME DirectiveAt(k) = "#else", Depth(k) = i
      PROVE  HasElse(i, k)
  <2>1. k \in 1..k /\ (\A j \in k..k : j = k) /\ Depth(k) >= i
    BY <1>2, <1>5
  <2> QED
    BY <1>1, <1>5, <2>1
<1> QED
  BY <1>3, <1>4, <1>5

\* What the four kinds of lines do to them.
LEMMA BranchKinds ==
  ASSUME NEW k \in Nat \ {0}, Balanced, k \in Lines
  PROVE  /\ DirectiveAt(k) \notin {"#if", "#else", "#endif"} =>
              /\ Depth(k) = Depth(k - 1) /\ (InElse(k) <=> InElse(k - 1))
              /\ \A i \in 1..Depth(k) : HasElse(i, k) <=> HasElse(i, k - 1)
         /\ DirectiveAt(k) = "#if" =>
              /\ Depth(k) = Depth(k - 1) + 1 /\ (InElse(k) <=> InElse(k - 1)) /\ ~HasElse(Depth(k), k)
              /\ \A i \in 1..Depth(k - 1) : HasElse(i, k) <=> HasElse(i, k - 1)
         /\ DirectiveAt(k) = "#else" =>
              /\ Depth(k) = Depth(k - 1) /\ Depth(k) >= 1 /\ InElse(k) /\ HasElse(Depth(k), k)
              /\ \A i \in 1..(Depth(k) - 1) : HasElse(i, k) <=> HasElse(i, k - 1)
         /\ DirectiveAt(k) = "#endif" =>
              /\ Depth(k) = Depth(k - 1) - 1 /\ Depth(k - 1) >= 1
              /\ \A i \in 1..Depth(k) : HasElse(i, k) <=> HasElse(i, k - 1)
<1> DEFINE d == DirectiveAt(k)
           n == Depth(k)
           m == Depth(k - 1)
<1>1. /\ n \in Int /\ m \in Int /\ (d = "#if" => n = m + 1) /\ (d = "#endif" => n = m - 1)
      /\ (d \notin {"#if", "#endif"} => n = m)
  BY DepthSteps
<1>2. \A i : HasElse(i, k) <=> n >= i /\ (HasElse(i, k - 1) \/ (d = "#else" /\ n = i))
  BY ElseSteps
<1>3. n >= IF d = "#else" THEN 1 ELSE 0
  BY Zenon DEF Balanced, DirectiveAt
<1>4. (InElse(k) <=> \E i \in 1..n : HasElse(i, k)) /\ (InElse(k - 1) <=> \E i \in 1..m : HasElse(i, k - 1))
  BY DEF InElse
<1>5. \A i : HasElse(i, k - 1) => m >= i
  <2>1. k - 1 # 0 => k - 1 \in Nat \ {0}
    OBVIOUS
  <2>2. k - 1 # 0 => \A i : HasElse(i, k - 1) => m >= i
    BY <2>1, ElseSteps
  <2>3. k - 1 = 0 => \A i : ~HasElse(i, k - 1)
    BY DEF HasElse
  <2> QED
    BY <2>2, <2>3
<1> HIDE DEF n, m, d
<1>6. CASE d \notin {"#if", "#else", "#endif"}
  <2>1. n = m /\ \A i \in 1..n : HasElse(i, k) <=> HasElse(i, k - 1)
    BY <1>1, <1>2, <1>6
  <2> QED
    BY <1>4, <1>6, <2>1 DEF n, m, d
<1>7. CASE d = "#if"
  <2>1. n = m + 1 /\ \A i \in 1..m : HasElse(i, k) <=> HasElse(i, k - 1)
    BY <1>1, <1>2, <1>7
  <2>2. ~HasElse(n, k)
    BY <1>1, <1>2, <1>5, <1>7
  <2>3. \A i : i \in 1..n <=> i \in 1..m \/ (i = n /\ n >= 1)
    BY <1>1, <2>1
  <2>4. InElse(k) <=> InElse(k - 1)
    BY <1>4, <2>1, <2>2, <2>3
  <2> QED
    BY <1>7, <2>1, <2>2, <2>4 DEF n, m, d
<1>8. CASE d = "#else"
  <2>1. n = m /\ n >= 1 /\ HasElse(n, k) /\ \A i \in 1..(n - 1) : HasElse(i, k) <=> HasElse(i, k - 1)
    BY <1>1, <1>2, <1>3, <1>8
  <2>2. n \in 1..n
    BY <1>1, <2>1
  <2>3. InElse(k)
    BY <1>4, <2>1, <2>2
  <2> QED
    BY <1>8, <2>1, <2>3 DEF n, m, d
<1>9. CASE d = "#endif"
  <2>1. n = m - 1 /\ m >= 1 /\ \A i \in 1..n : HasElse(i, k) <=> HasElse(i, k - 1)
    BY <1>1, <1>2, <1>3, <1>9
  <2> QED
    BY <1>9, <2>1 DEF n, m, d
<1> QED
  BY <1>6, <1>7, <1>8, <1>9 DEF d

\* A stack in any file is a stack.
LEMMA StackIsStack ==
  ASSUME NEW calm, NEW s, IsStack(s, calm)
  PROVE  IsStack(s, FALSE)
BY DEF IsStack, IsSound

\* The text of the first branches.
LEMMA FirstBranchesAre ==
  ASSUME clean_lines.elided \in Seq(Line)
  PROVE  /\ FirstBranches.elided \in Seq(Line) /\ Len(FirstBranches.elided) = Len(clean_lines.elided)
         /\ \A k \in Lines : FirstBranches.elided[k] = IF InElse(k) THEN <<>> ELSE clean_lines.elided[k]
<1> DEFINE first == [k \in Lines |-> IF InElse(k) THEN <<>> ELSE Elided(k)]
<1>1. FirstBranches.elided = first
  BY DEF FirstBranches
<1>2. Lines = 1..Len(clean_lines.elided) /\ Len(clean_lines.elided) \in Nat
  BY LenProperties DEF Lines
<1>3. \A k \in Lines : Elided(k) \in Line /\ <<>> \in Line
  BY ElementOfSeq, EmptySeq DEF Elided, Lines, Line
<1>4. \A k \in Lines : first[k] = (IF InElse(k) THEN <<>> ELSE clean_lines.elided[k]) /\ first[k] \in Line
  BY <1>3 DEF Elided
<1>5. first \in [1..Len(clean_lines.elided) -> Line]
  BY <1>2, <1>3
<1> HIDE DEF first
<1> QED
  BY <1>1, <1>2, <1>4, <1>5, OnNumbers

\* A line of them is read as in the file, where the blocks before it are those of the
\* file; in a branch behind an #else the parentheses are counted that nobody opens.
LEMMA FirstReading ==
  ASSUME clean_lines.elided \in Seq(Line), ArgumentsStandAlone, NEW k \in Lines,
         NEW u, Alike(u, FirstRead(k - 1))
  PROVE  /\ ~InElse(k) => Alike(ReadLine(u, clean_lines, k), FirstRead(k))
         /\ InElse(k) => Alike(CountParentheses(u, <<>>), FirstRead(k))
<1> DEFINE f == FirstBranches
           v == BlocksRead(f)[k - 1]
<1>1. /\ f.elided \in Seq(Line) /\ k \in 1..Len(f.elided)
      /\ f.elided[k] = (IF InElse(k) THEN <<>> ELSE clean_lines.elided[k])
      /\ clean_lines.elided[k] \in Line
  <2>1. Lines = 1..Len(clean_lines.elided)
    BY LenProperties DEF Lines
  <2> QED
    BY <2>1, FirstBranchesAre, ElementOfSeq
<1>2. Alike(u, v)
  BY DEF FirstRead
<1>3. FirstRead(k) = ReadLine(v, f, k)
  <2> HIDE DEF f, v
  <2>1. BlocksRead(f)[k] = ReadLine(BlocksRead(f)[k - 1], f, k)
    BY <1>1, BlocksReadUnfolds
  <2> QED
    BY <2>1 DEF FirstRead, f, v
<1> HIDE DEF v
<1>4. ASSUME ~InElse(k) PROVE Alike(ReadLine(u, clean_lines, k), ReadLine(v, f, k))
  <2>1. \A i \in 1..(Len(clean_lines.elided[k]) + 1) :
          InTemplateArgumentList(clean_lines.elided, k, i) <=> InTemplateArgumentList(f.elided, k, i)
    BY <1>4 DEF ArgumentsStandAlone, Elided
  <2>2. f.elided[k] = clean_lines.elided[k]
    BY <1>1, <1>4
  <2> HIDE DEF f
  <2> QED
    BY <1>1, <1>2, <2>1, <2>2, AlikeReading
<1>5. ASSUME InElse(k) PROVE Alike(CountParentheses(u, <<>>), ReadLine(v, f, k))
  <2>1. f.elided[k] = <<>> /\ <<>> \in Line
    BY <1>1, <1>5, EmptySeq DEF Line
  <2> HIDE DEF f
  <2>2. ReadLine(v, f, k) = CountParentheses(v, <<>>)
    BY <2>1, BlankReading
  <2>3. Alike(CountParentheses(u, <<>>), CountParentheses(v, <<>>))
    BY <1>2, <2>1, AlikeCounted
  <2> QED
    BY <2>2, <2>3
<1> QED
  BY <1>3, <1>4, <1>5

\* Once they are counted, that changes nothing.
LEMMA FirstWaits ==
  ASSUME clean_lines.elided \in Seq(Line), ArgumentsStandAlone, NEW k \in Lines, InElse(k),
         NEW u, IsStack(u, FALSE), Alike(CountParentheses(u, <<>>), FirstRead(k - 1))
  PROVE  Alike(CountParentheses(u, <<>>), FirstRead(k))
<1>1. Alike(CountParentheses(CountParentheses(u, <<>>), <<>>), FirstRead(k))
  BY FirstReading
<1>2. <<>> \in Line
  BY EmptySeq DEF Line
<1>3. CountParentheses(CountParentheses(u, <<>>), <<>>) = CountParentheses(u, <<>>)
  BY <1>2, CountedOnce
<1> QED
  BY <1>1, <1>3

\* And a line of the file is read as behind them.
LEMMA FirstGoesOn ==
  ASSUME clean_lines.elided \in Seq(Line), ArgumentsStandAlone, NEW k \in Lines, ~InElse(k),
         NEW u, IsStack(u, FALSE), Alike(CountParentheses(u, <<>>), FirstRead(k - 1))
  PROVE  Alike(ReadLine(u, clean_lines, k), FirstRead(k))
<1>1. Alike(ReadLine(CountParentheses(u, <<>>), clean_lines, k), FirstRead(k))
  BY FirstReading
<1>2. clean_lines.elided[k] \in Line
  BY ElementOfSeq, LenProperties DEF Lines
<1>3. ReadLine(CountParentheses(u, <<>>), clean_lines, k) = ReadLine(u, clean_lines, k)
  BY <1>2, CountedReading
<1> QED
  BY <1>1, <1>3

\* What is known of the blocks and the conditionals behind a line.
IsOutermost(i, n) == HasElse(i, n) /\ \A j \in 1..(i - 1) : ~HasElse(j, n)

IsBranchState(s, n) ==
  /\ Len(s.pp_stack) = Depth(n)
  /\ \A i \in 1..Depth(n) : s.pp_stack[i].seen_else <=> HasElse(i, n)
  /\ ~InElse(n) => Alike(s.stack, FirstRead(n))
  /\ \A i \in 1..Depth(n) :
       IsOutermost(i, n) => Alike(CountParentheses(s.pp_stack[i].before_else, <<>>), FirstRead(n))

\* One of the conditionals is the outermost that has had its #else.
LEMMA OneIsOutermost ==
  ASSUME NEW n, Depth(n) \in Int, NEW i \in 1..Depth(n), IsOutermost(i, n)
  PROVE  InElse(n)
BY DEF IsOutermost, InElse

\* What the conditionals keep are stacks.
LEMMA BranchesAreKept ==
  ASSUME NEW calm, NEW s, IsNesting(s, calm)
  PROVE  /\ IsList(s.pp_stack) /\ IsStack(s.stack, FALSE)
         /\ \A i \in 1..Len(s.pp_stack) :
              LET p == s.pp_stack[i]
              IN  /\ IsStack(p.before_else, FALSE) /\ IsStack(p.before_if, FALSE)
                  /\ p = [before_if |-> p.before_if, before_else |-> p.before_else, seen_else |-> p.seen_else]
<1>1. /\ IsList(s.pp_stack) /\ IsStack(s.stack, calm)
      /\ \A i \in 1..Len(s.pp_stack) : IsCheckpoint(s.pp_stack[i], calm)
  BY ListFacts DEF IsNesting
<1>2. ASSUME NEW i \in 1..Len(s.pp_stack), NEW p, p = s.pp_stack[i]
      PROVE  /\ IsStack(p.before_else, FALSE) /\ IsStack(p.before_if, FALSE)
             /\ p = [before_if |-> p.before_if, before_else |-> p.before_else, seen_else |-> p.seen_else]
  <2>1. IsCheckpoint(p, calm)
    BY <1>1, <1>2
  <2> QED
    BY <2>1, StackIsStack DEF IsCheckpoint
<1> QED
  BY <1>1, <1>2, StackIsStack, Zenon

\* A line that is no directive.
LEMMA PlainFollows ==
  ASSUME clean_lines.elided \in Seq(Line), Balanced, ArgumentsStandAlone, NEW k \in Lines, k \in Nat \ {0},
         NEW calm, NEW s, IsNesting(s, calm), IsBranchState(s, k - 1),
         DirectiveAt(k) \notin {"#if", "#else", "#endif"}
  PROVE  IsBranchState(Update(s, clean_lines, k).nesting, k)
<1> DEFINE open == s.pp_stack
           pp == UpdatePreprocessor(RememberTop(s), clean_lines.elided[k])
           next == Update(s, clean_lines, k).nesting
           n == Depth(k)
<1>1. next.stack = ReadLine(pp.stack, clean_lines, k) /\ next.pp_stack = pp.pp_stack
  BY UpdateReads
<1>2. pp.stack = s.stack /\ pp.pp_stack = open
  <2>1. Directive(clean_lines.elided[k]) \notin {"#if", "#else", "#endif"}
    BY DEF DirectiveAt, Elided
  <2>2. Directive(clean_lines.elided[k]) \notin {"#if", "#else", "#endif"} =>
          pp.stack = s.stack /\ pp.pp_stack = open
    BY ConditionalIs, Zenon
  <2> QED
    BY <2>1, <2>2, Zenon
<1> HIDE DEF pp, next
<1>3. /\ n = Depth(k - 1) /\ (InElse(k) <=> InElse(k - 1)) /\ n \in Int
      /\ \A i \in 1..n : HasElse(i, k) <=> HasElse(i, k - 1)
  BY BranchKinds, DepthSteps
<1>4. /\ Len(open) = n
      /\ \A i \in 1..n : open[i].seen_else <=> HasElse(i, k)
      /\ ~InElse(k - 1) => Alike(s.stack, FirstRead(k - 1))
      /\ \A i \in 1..n :
           IsOutermost(i, k - 1) => Alike(CountParentheses(open[i].before_else, <<>>), FirstRead(k - 1))
  BY <1>3 DEF IsBranchState
<1>5. ~InElse(k) => Alike(next.stack, FirstRead(k))
  BY <1>1, <1>2, <1>3, <1>4, FirstReading
<1>6. ASSUME NEW i \in 1..n, IsOutermost(i, k)
      PROVE  Alike(CountParentheses(open[i].before_else, <<>>), FirstRead(k))
  <2>1. IsOutermost(i, k - 1)
    BY <1>3, <1>6 DEF IsOutermost
  <2>2. InElse(k)
    BY <1>3, <1>6, OneIsOutermost
  <2>3. IsStack(open[i].before_else, FALSE)
    BY <1>4, <1>6, BranchesAreKept
  <2> QED
    BY <1>4, <1>6, <2>1, <2>2, <2>3, FirstWaits
<1> QED
  BY <1>1, <1>2, <1>4, <1>5, <1>6 DEF IsBranchState, next

\* What is left below the top of a list.
LEMMA FrontIs ==
  ASSUME NEW s, IsList(s), s # <<>>
  PROVE  Len(Front(s)) = Len(s) - 1 /\ \A i \in 1..(Len(s) - 1) : Front(s)[i] = s[i]
<1> DEFINE f == Front(s)
<1>1. Len(s) \in Nat \ {0}
  BY ListFacts
<1>2. IsList(f) /\ \A i \in 1..Len(f) : f[i] = s[i]
  BY ListFront
<1>3. Len(f) = Len(s) - 1
  BY <1>1 DEF Front
<1> HIDE DEF f
<1>4. \A i \in 1..(Len(s) - 1) : f[i] = s[i]
  BY <1>2, <1>3
<1> QED
  BY <1>3, <1>4 DEF f

\* What is on top of a list, and what is left below.
LEMMA OnTopIs ==
  ASSUME NEW s, IsList(s), s # <<>>, NEW n, n = Len(s), NEW q
  PROVE  /\ Len(OnTop(s, q)) = n /\ OnTop(s, q)[n] = q
         /\ \A i \in 1..(n - 1) : OnTop(s, q)[i] = s[i]
         /\ Len(Front(s)) = n - 1 /\ \A i \in 1..(n - 1) : Front(s)[i] = s[i]
<1> DEFINE f == Front(s)
<1>1. n \in Nat \ {0}
  BY ListFacts
<1>2. IsList(f) /\ \A i \in 1..Len(f) : f[i] = s[i]
  BY ListFront
<1>3. Len(f) = n - 1
  BY <1>1 DEF Front
<1>4. OnTop(s, q) = Append(f, q)
  BY DEF OnTop
<1> HIDE DEF f
<1>5. /\ Len(Append(f, q)) = Len(f) + 1 /\ Append(f, q)[Len(f) + 1] = q
      /\ \A i \in 1..Len(f) : Append(f, q)[i] = f[i]
  BY <1>2, ListAppend
<1>6. Len(f) + 1 = n
  BY <1>1, <1>3
<1> QED
  BY <1>2, <1>3, <1>4, <1>5, <1>6 DEF f

\* An #if.
LEMMA IfFollows ==
  ASSUME clean_lines.elided \in Seq(Line), Balanced, ArgumentsStandAlone, NEW k \in Lines, k \in Nat \ {0},
         NEW calm, NEW s, IsNesting(s, calm), IsBranchState(s, k - 1), DirectiveAt(k) = "#if"
  PROVE  IsBranchState(Update(s, clean_lines, k).nesting, k)
<1> DEFINE open == s.pp_stack
           new == _PreprocessorInfo(s.stack)
           pp == UpdatePreprocessor(RememberTop(s), clean_lines.elided[k])
           next == Update(s, clean_lines, k).nesting
           n == Depth(k)
           m == Depth(k - 1)
<1>1. next.stack = ReadLine(pp.stack, clean_lines, k) /\ next.pp_stack = pp.pp_stack
  BY UpdateReads
<1>2. pp.stack = s.stack /\ pp.pp_stack = Append(open, new)
  <2>1. Directive(clean_lines.elided[k]) = "#if"
    BY DEF DirectiveAt, Elided
  <2>2. Directive(clean_lines.elided[k]) = "#if" => pp.stack = s.stack /\ pp.pp_stack = Append(open, new)
    BY ConditionalIs, Zenon
  <2> QED
    BY <2>1, <2>2, Zenon
<1>3. new.seen_else = FALSE
  BY DEF _PreprocessorInfo
<1> HIDE DEF pp, next, new
<1>4. /\ n = m + 1 /\ (InElse(k) <=> InElse(k - 1)) /\ n \in Int /\ m \in Int /\ ~HasElse(n, k)
      /\ \A i \in 1..m : HasElse(i, k) <=> HasElse(i, k - 1)
  BY BranchKinds, DepthSteps
<1>5. /\ Len(open) = m /\ IsList(open)
      /\ \A i \in 1..m : open[i].seen_else <=> HasElse(i, k)
      /\ ~InElse(k - 1) => Alike(s.stack, FirstRead(k - 1))
      /\ \A i \in 1..m :
           IsOutermost(i, k - 1) => Alike(CountParentheses(open[i].before_else, <<>>), FirstRead(k - 1))
  BY <1>4, BranchesAreKept DEF IsBranchState
<1>6. /\ Len(next.pp_stack) = n /\ next.pp_stack[n] = new
      /\ \A i \in 1..m : next.pp_stack[i] = open[i]
  BY <1>1, <1>2, <1>4, <1>5, ListAppend
<1>7. ~InElse(k) => Alike(next.stack, FirstRead(k))
  BY <1>1, <1>2, <1>4, <1>5, FirstReading
<1>8. \A i \in 1..n : i \in 1..m \/ i = n
  BY <1>4
<1>9. ASSUME NEW i \in 1..n, IsOutermost(i, k)
      PROVE  Alike(CountParentheses(next.pp_stack[i].before_else, <<>>), FirstRead(k))
  <2>1. i \in 1..m
    BY <1>4, <1>8, <1>9 DEF IsOutermost
  <2>2. \A j \in 1..(i - 1) : j \in 1..m
    BY <1>4, <2>1
  <2>3. IsOutermost(i, k - 1)
    BY <1>4, <1>9, <2>1, <2>2 DEF IsOutermost
  <2>4. InElse(k)
    BY <1>4, <1>9, OneIsOutermost
  <2>5. IsStack(open[i].before_else, FALSE)
    BY <1>5, <2>1, BranchesAreKept
  <2>6. Alike(CountParentheses(open[i].before_else, <<>>), FirstRead(k))
    BY <1>5, <2>1, <2>3, <2>4, <2>5, FirstWaits
  <2> QED
    BY <1>6, <2>1, <2>6
<1>10. \A i \in 1..n : next.pp_stack[i].seen_else <=> HasElse(i, k)
  <2> TAKE i \in 1..n
  <2>1. CASE i \in 1..m
    BY <1>5, <1>6, <2>1
  <2>2. CASE i = n
    BY <1>3, <1>4, <1>6, <2>2
  <2> QED
    BY <1>8, <2>1, <2>2
<1> QED
  BY <1>6, <1>7, <1>9, <1>10 DEF IsBranchState, next

\* An #else.
LEMMA ElseFollows ==
  ASSUME clean_lines.elided \in Seq(Line), Balanced, ArgumentsStandAlone, NEW k \in Lines, k \in Nat \ {0},
         NEW calm, NEW s, IsNesting(s, calm), IsBranchState(s, k - 1), DirectiveAt(k) = "#else"
  PROVE  IsBranchState(Update(s, clean_lines, k).nesting, k)
<1> DEFINE open == s.pp_stack
           p == Last(open)
           saved == [p EXCEPT !.seen_else = TRUE, !.before_else = s.stack]
           q == IF p.seen_else THEN p ELSE saved
           pp == UpdatePreprocessor(RememberTop(s), clean_lines.elided[k])
           next == Update(s, clean_lines, k).nesting
           n == Depth(k)
<1>1. next.stack = ReadLine(pp.stack, clean_lines, k) /\ next.pp_stack = pp.pp_stack
  BY UpdateReads
<1>2. /\ n = Depth(k - 1) /\ n >= 1 /\ n \in Int /\ InElse(k) /\ HasElse(n, k)
      /\ \A i \in 1..(n - 1) : HasElse(i, k) <=> HasElse(i, k - 1)
  BY BranchKinds, DepthSteps
<1>3. /\ Len(open) = n /\ IsList(open)
      /\ \A i \in 1..n : open[i].seen_else <=> HasElse(i, k - 1)
      /\ ~InElse(k - 1) => Alike(s.stack, FirstRead(k - 1))
      /\ \A i \in 1..n :
           IsOutermost(i, k - 1) => Alike(CountParentheses(open[i].before_else, <<>>), FirstRead(k - 1))
  BY <1>2, BranchesAreKept DEF IsBranchState
<1>4. open # <<>> /\ n \in 1..n /\ p = open[n]
  <2>1. n # 0 /\ n \in 1..n
    BY <1>2
  <2>2. open # <<>>
    BY <1>3, <2>1, EmptySeq
  <2> QED
    BY <1>3, <2>1, <2>2 DEF Last
<1>5. pp.pp_stack = OnTop(open, q)
  <2>1. Directive(clean_lines.elided[k]) = "#else"
    BY DEF DirectiveAt, Elided
  <2>2. Directive(clean_lines.elided[k]) = "#else" /\ open # <<>> =>
          /\ p.seen_else => pp.pp_stack = OnTop(open, p)
          /\ ~p.seen_else => pp.pp_stack = OnTop(open, saved)
    BY ConditionalIs, Zenon
  <2> HIDE DEF pp, p, saved
  <2> QED
    BY <1>4, <2>1, <2>2
<1>6. /\ IsStack(p.before_else, FALSE) /\ IsStack(s.stack, FALSE)
      /\ p = [before_if |-> p.before_if, before_else |-> p.before_else, seen_else |-> p.seen_else]
  <2>1. n \in 1..Len(open)
    BY <1>3, <1>4
  <2> HIDE DEF p
  <2> QED
    BY <1>4, <2>1, BranchesAreKept
<1>7. /\ q.seen_else
      /\ p.seen_else => q.before_else = p.before_else
      /\ ~p.seen_else => q.before_else = s.stack
  <2>1. saved.seen_else = TRUE /\ saved.before_else = s.stack
    <3> HIDE DEF p
    <3> QED
      BY <1>6
  <2> HIDE DEF saved, p
  <2> QED
    BY <2>1
<1> HIDE DEF pp, next, q, p, saved
<1>8. /\ Len(next.pp_stack) = n /\ next.pp_stack[n] = q
      /\ \A i \in 1..(n - 1) : next.pp_stack[i] = open[i]
  BY <1>1, <1>2, <1>3, <1>4, <1>5, OnTopIs
<1>9. \A i \in 1..n : i \in 1..(n - 1) \/ i = n
  BY <1>2
<1>10. ASSUME NEW i \in 1..n, IsOutermost(i, k)
       PROVE  Alike(CountParentheses(next.pp_stack[i].before_else, <<>>), FirstRead(k))
  <2>1. \A j \in 1..(i - 1) : j \in 1..(n - 1) /\ ~HasElse(j, k - 1)
    BY <1>2, <1>10 DEF IsOutermost
  <2>2. HasElse(i, k - 1) => Alike(CountParentheses(open[i].before_else, <<>>), FirstRead(k - 1))
    BY <1>3, <2>1 DEF IsOutermost
  <2>3. HasElse(i, k - 1) => Alike(CountParentheses(open[i].before_else, <<>>), FirstRead(k))
    <3>1. IsStack(open[i].before_else, FALSE)
      BY <1>3, BranchesAreKept
    <3> QED
      BY <1>2, <2>2, <3>1, FirstWaits
  <2>4. CASE i \in 1..(n - 1)
    BY <1>2, <1>8, <1>10, <2>3, <2>4 DEF IsOutermost
  <2>5. CASE i = n /\ p.seen_else
    BY <1>3, <1>4, <1>7, <1>8, <2>3, <2>5
  <2>6. CASE i = n /\ ~p.seen_else
    <3>1. ~HasElse(n, k - 1)
      BY <1>3, <1>4, <2>6
    <3>2. ~InElse(k - 1)
      BY <1>2, <1>9, <2>1, <2>6, <3>1 DEF InElse
    <3>3. Alike(CountParentheses(s.stack, <<>>), FirstRead(k))
      BY <1>2, <1>3, <3>2, FirstReading
    <3> QED
      BY <1>7, <1>8, <2>6, <3>3
  <2> QED
    BY <1>9, <2>4, <2>5, <2>6
<1>11. \A i \in 1..n : next.pp_stack[i].seen_else <=> HasElse(i, k)
  <2> TAKE i \in 1..n
  <2>1. CASE i \in 1..(n - 1)
    BY <1>2, <1>3, <1>8, <2>1
  <2>2. CASE i = n
    BY <1>2, <1>7, <1>8, <2>2
  <2> QED
    BY <1>9, <2>1, <2>2
<1> QED
  BY <1>2, <1>8, <1>10, <1>11 DEF IsBranchState, next

\* An #endif.
LEMMA EndifFollows ==
  ASSUME clean_lines.elided \in Seq(Line), Balanced, ArgumentsStandAlone, NEW k \in Lines, k \in Nat \ {0},
         NEW calm, NEW s, IsNesting(s, calm), IsBranchState(s, k - 1), DirectiveAt(k) = "#endif"
  PROVE  IsBranchState(Update(s, clean_lines, k).nesting, k)
<1> DEFINE open == s.pp_stack
           p == Last(open)
           pp == UpdatePreprocessor(RememberTop(s), clean_lines.elided[k])
           next == Update(s, clean_lines, k).nesting
           n == Depth(k)
           m == Depth(k - 1)
<1>1. next.stack = ReadLine(pp.stack, clean_lines, k) /\ next.pp_stack = pp.pp_stack
  BY UpdateReads
<1>2. /\ n = m - 1 /\ m >= 1 /\ m \in Int /\ n \in Int
      /\ \A i \in 1..n : HasElse(i, k) <=> HasElse(i, k - 1)
  BY BranchKinds, DepthSteps
<1>3. /\ Len(open) = m /\ IsList(open)
      /\ \A i \in 1..m : open[i].seen_else <=> HasElse(i, k - 1)
      /\ ~InElse(k - 1) => Alike(s.stack, FirstRead(k - 1))
      /\ \A i \in 1..m :
           IsOutermost(i, k - 1) => Alike(CountParentheses(open[i].before_else, <<>>), FirstRead(k - 1))
  BY BranchesAreKept DEF IsBranchState
<1>4. open # <<>> /\ m \in 1..m /\ p = open[m]
  <2>1. m # 0 /\ m \in 1..m
    BY <1>2
  <2>2. open # <<>>
    BY <1>3, <2>1, EmptySeq
  <2> QED
    BY <1>3, <2>1, <2>2 DEF Last
<1>5. pp.pp_stack = Front(open) /\ pp.stack = IF p.seen_else THEN p.before_else ELSE s.stack
  <2>1. Directive(clean_lines.elided[k]) = "#endif"
    BY DEF DirectiveAt, Elided
  <2>2. Directive(clean_lines.elided[k]) = "#endif" /\ open # <<>> =>
          /\ pp.pp_stack = Front(open)
          /\ pp.stack = IF p.seen_else THEN p.before_else ELSE s.stack
    BY ConditionalIs, Zenon
  <2> HIDE DEF pp, p
  <2> QED
    BY <1>4, <2>1, <2>2
<1>6. IsStack(p.before_else, FALSE) /\ IsStack(s.stack, FALSE)
  <2> HIDE DEF p
  <2>1. IsStack(s.stack, FALSE) /\ \A i \in 1..Len(open) : IsStack(open[i].before_else, FALSE)
    BY BranchesAreKept
  <2> QED
    BY <1>3, <1>4, <2>1
<1> HIDE DEF pp, next, p
<1>7. Len(next.pp_stack) = n /\ \A i \in 1..n : next.pp_stack[i] = open[i]
  <2>1. n = m - 1
    BY <1>2
  <2> HIDE DEF open, n, m
  <2>2. Len(Front(open)) = m - 1 /\ \A i \in 1..(m - 1) : Front(open)[i] = open[i]
    BY <1>3, <1>4, FrontIs
  <2> QED
    BY <1>1, <1>5, <2>1, <2>2
<1>8. \A i : i \in 1..m <=> i \in 1..n \/ i = m
  BY <1>2
<1>9. ASSUME ~InElse(k) PROVE Alike(next.stack, FirstRead(k))
  <2>1. \A i \in 1..n : ~HasElse(i, k - 1)
    BY <1>2, <1>9 DEF InElse
  <2>2. CASE p.seen_else
    <3>1. HasElse(m, k - 1)
      BY <1>3, <1>4, <2>2
    <3>2. IsOutermost(m, k - 1)
      BY <1>2, <2>1, <3>1 DEF IsOutermost
    <3>3. Alike(CountParentheses(p.before_else, <<>>), FirstRead(k - 1))
      BY <1>3, <1>4, <3>2
    <3>4. Alike(ReadLine(p.before_else, clean_lines, k), FirstRead(k))
      BY <1>6, <1>9, <3>3, FirstGoesOn
    <3> QED
      BY <1>1, <1>5, <2>2, <3>4
  <2>3. CASE ~p.seen_else
    <3>1. ~HasElse(m, k - 1)
      BY <1>3, <1>4, <2>3
    <3>2. ~InElse(k - 1)
      BY <1>8, <2>1, <3>1 DEF InElse
    <3>3. Alike(ReadLine(s.stack, clean_lines, k), FirstRead(k))
      BY <1>3, <1>9, <3>2, FirstReading
    <3> QED
      BY <1>1, <1>5, <2>3, <3>3
  <2> QED
    BY <2>2, <2>3
<1>10. ASSUME NEW i \in 1..n, IsOutermost(i, k)
       PROVE  Alike(CountParentheses(next.pp_stack[i].before_else, <<>>), FirstRead(k))
  <2>1. i \in 1..m /\ \A j \in 1..(i - 1) : j \in 1..n
    BY <1>2, <1>8
  <2>2. IsOutermost(i, k - 1)
    BY <1>2, <1>10, <2>1 DEF IsOutermost
  <2>3. InElse(k)
    BY <1>2, <1>10, OneIsOutermost
  <2>4. IsStack(open[i].before_else, FALSE)
    BY <1>3, <2>1, BranchesAreKept
  <2>5. Alike(CountParentheses(open[i].before_else, <<>>), FirstRead(k))
    BY <1>3, <2>1, <2>2, <2>3, <2>4, FirstWaits
  <2> QED
    BY <1>7, <2>5
<1>11. \A i \in 1..n : next.pp_stack[i].seen_else <=> HasElse(i, k)
  BY <1>2, <1>3, <1>7, <1>8
<1> QED
  BY <1>7, <1>9, <1>10, <1>11 DEF IsBranchState, next

\* A line that is read.
LEMMA BranchFollows ==
  ASSUME clean_lines.elided \in Seq(Line), Balanced, ArgumentsStandAlone, NEW k \in Lines, k \in Nat \ {0},
         NEW calm, NEW s, IsNesting(s, calm), IsBranchState(s, k - 1)
  PROVE  IsBranchState(Update(s, clean_lines, k).nesting, k)
<1>1. CASE DirectiveAt(k) = "#if"
  BY <1>1, IfFollows
<1>2. CASE DirectiveAt(k) = "#else"
  BY <1>2, ElseFollows
<1>3. CASE DirectiveAt(k) = "#endif"
  BY <1>3, EndifFollows
<1>4. CASE DirectiveAt(k) \notin {"#if", "#else", "#endif"}
  BY <1>4, PlainFollows
<1> QED
  BY <1>1, <1>2, <1>3, <1>4

\* The same in the terms of the invariant.
BranchParts(s, n) ==
  LET open == s.pp_stack
      read == Blocks(BlocksRead(FirstBranches)[n])
  IN  /\ Len(open) = Depth(n)
      /\ \A i \in DOMAIN open : open[i].seen_else <=> HasElse(i, n)
      /\ ~InElse(n) => Blocks(s.stack) = read
      /\ \A i \in DOMAIN open :
           HasElse(i, n) /\ (\A j \in 1..(i - 1) : ~HasElse(j, n)) =>
             Blocks(CountParentheses(open[i].before_else, <<>>)) = read

\* Both tell the same of the state of a text.
LEMMA BranchIs ==
  ASSUME clean_lines.elided \in Seq(Line), NEW n \in 0..Len(clean_lines.elided),
         NEW calm, NEW s, IsNesting(s, calm)
  PROVE  IsBranchState(s, n) <=> BranchParts(s, n)
<1> DEFINE open    == s.pp_stack
           first   == FirstRead(n)
           kept(i) == CountParentheses(open[i].before_else, <<>>)
<1>1. IsStack(first, FALSE)
  <2>1. n \in 0..Len(FirstBranches.elided) /\ FirstBranches.elided \in Seq(Line)
    BY FirstBranchesAre
  <2> QED
    BY <2>1, BlocksReadUnfolds DEF FirstRead
<1>2. IsStack(s.stack, FALSE) /\ DOMAIN open = 1..Len(open)
  BY BranchesAreKept, ListFacts
<1>3. \A i \in 1..Len(open) : IsStack(kept(i), FALSE)
  <2> TAKE i \in 1..Len(open)
  <2>1. Alike(open[i].before_else, open[i].before_else) /\ <<>> \in Line
    BY BranchesAreKept, AlikeSelf, EmptySeq DEF Line
  <2>2. Alike(kept(i), kept(i))
    BY <2>1, AlikeCounted
  <2> QED
    BY <2>2 DEF Alike
<1>4. Alike(s.stack, first) <=> Blocks(s.stack) = Blocks(first)
  BY <1>1, <1>2, AlikeIs
<1>5. \A i \in 1..Len(open) : Alike(kept(i), first) <=> Blocks(kept(i)) = Blocks(first)
  BY <1>1, <1>3, AlikeIs
<1>6. BranchParts(s, n) <=>
        /\ Len(open) = Depth(n)
        /\ \A i \in DOMAIN open : open[i].seen_else <=> HasElse(i, n)
        /\ ~InElse(n) => Blocks(s.stack) = Blocks(first)
        /\ \A i \in DOMAIN open : IsOutermost(i, n) => Blocks(kept(i)) = Blocks(first)
  BY Zenon DEF BranchParts, IsOutermost, FirstRead
<1>7. IsBranchState(s, n) <=>
        /\ Len(open) = Depth(n)
        /\ \A i \in 1..Depth(n) : open[i].seen_else <=> HasElse(i, n)
        /\ ~InElse(n) => Alike(s.stack, first)
        /\ \A i \in 1..Depth(n) : IsOutermost(i, n) => Alike(kept(i), first)
  BY Zenon DEF IsBranchState
<1> HIDE DEF open, first, kept
<1> QED
  BY <1>2, <1>4, <1>5, <1>6, <1>7

\* A file of which no line is read has no conditional open.
LEMMA NoneIsOpen == Depth(0) = 0
<1>1. \A d : {i \in 1..0 : Directive(Elided(i)) = d} = {}
  OBVIOUS
<1> QED
  BY <1>1, FS_EmptySet DEF Depth

\* Before the first line there is no block.
LEMMA NothingIsRead == clean_lines.elided \in Seq(Line) => BlocksRead(FirstBranches)[0] = <<>>
  BY FirstBranchesAre, BlocksReadUnfolds

\* A file of which no line is read.
LEMMA BranchBegins ==
  ASSUME Inv, ProcessFileData
  PROVE  BranchInv'
<1>1. linenum' = 1 /\ nesting_state' = NestingState /\ pc' = "lines"
  BY DEF ProcessFileData
<1>2. (clean_lines.elided \in Seq(Line))'
  BY <1>1, FileBegins DEF LineInv, Line
<1>3. (BlocksRead(FirstBranches)[0] = <<>>)'
  BY <1>2, NothingIsRead, PTL
<1>4. (Depth(0) = 0)'
  BY NoneIsOpen, PTL
<1>5. /\ nesting_state'.pp_stack = <<>> /\ nesting_state'.stack = <<>> /\ Len(<<>>) = 0 /\ DOMAIN <<>> = {}
      /\ linenum' - 1 = 0
  BY <1>1, EmptySeq DEF NestingState
<1>6. BranchParts(nesting_state, linenum - 1)'
  BY <1>3, <1>4, <1>5 DEF BranchParts
<1> QED
  BY <1>6 DEF BranchInv, BranchParts

\* What is known of the blocks stays as long as the text does.
LEMMA BranchPrimed ==
  ASSUME clean_lines' = clean_lines, BranchParts(nesting_state', linenum' - 1)
  PROVE  BranchParts(nesting_state, linenum - 1)'
<1>1. Depth(linenum - 1)' = Depth(linenum' - 1)
  BY BranchesStay
<1>2. InElse(linenum - 1)' <=> InElse(linenum' - 1)
  BY BranchesStay
<1>3. BlocksRead(FirstBranches)[linenum - 1]' = BlocksRead(FirstBranches)[linenum' - 1]
  BY BranchesStay DEF FirstRead
<1>4. \A i : HasElse(i, linenum - 1)' <=> HasElse(i, linenum' - 1)
  BY BranchesStay
<1> QED
  BY <1>1, <1>2, <1>3, <1>4 DEF BranchParts

\* A line that is read with balanced conditionals.
LEMMA BranchReads ==
  ASSUME Inv, ProcessLine
  PROVE  BranchInv'
<1> DEFINE next == Update(nesting_state, clean_lines, linenum).nesting
           calm == IsCalm
<1>1. /\ IsCode(linenum) /\ linenum \in Nat \ {0} /\ linenum' = linenum + 1 /\ Elided(linenum) \in Line
      /\ pc = "lines" /\ pc' = "lines" /\ clean_lines' = clean_lines /\ job' = job /\ todo' = todo
  BY NextLine
<1>2. nesting_state' = next
  BY Zenon DEF ProcessLine, CheckedLine
<1>3. /\ clean_lines.elided \in Seq(Line) /\ linenum \in Lines
      /\ linenum \in 0..Len(clean_lines.elided) /\ linenum - 1 \in 0..Len(clean_lines.elided)
      /\ linenum' - 1 = linenum /\ IsNesting(nesting_state, calm)
  BY <1>1, LenProperties DEF Inv, LineInv, IsCode, Line, Lines
<1>4. IsNesting(next, calm')
  BY <1>1, <1>2, LineIsChecked DEF LineInv
<1> HIDE DEF next, calm
<1>5. (Balanced' <=> Balanced) /\ (ArgumentsStandAlone' <=> ArgumentsStandAlone)
  BY <1>1, BranchesStay
<1>6. ASSUME Balanced, ArgumentsStandAlone PROVE BranchParts(nesting_state, linenum - 1)'
  <2>1. BranchParts(nesting_state, linenum - 1)
    BY <1>1, <1>6 DEF Inv, BranchInv, BranchParts
  <2>2. IsBranchState(nesting_state, linenum - 1)
    BY <1>3, <2>1, BranchIs
  <2>3. IsBranchState(next, linenum)
    BY <1>1, <1>3, <1>6, <2>2, BranchFollows DEF next
  <2>4. BranchParts(next, linenum)
    BY <1>3, <1>4, <2>3, BranchIs
  <2> QED
    BY <1>1, <1>2, <1>3, <2>4, BranchPrimed
<1> QED
  BY <1>5, <1>6 DEF BranchInv, BranchParts

\* Every step.
LEMMA BranchStep ==
  ASSUME Inv, [Next]_vars
  PROVE  BranchInv'
<1>1. CASE ProcessFileData
  BY <1>1, BranchBegins
<1>2. CASE ProcessLine
  BY <1>2, BranchReads
<1>3. CASE ~ProcessFileData /\ ~ProcessLine
  <2>1. \/ pc' # "lines"
        \/ pc' = pc /\ UNCHANGED text
    BY <1>3 DEF Next, vars, ParseArguments, BadArguments, BackupFilters, ProcessConfigOverrides, AddFilters,
         BadFilter, SkipInput, IgnoreFile, EndOfFile, RestoreFilters, Finish, Exited, Die
  <2>2. CASE pc' # "lines"
    BY <2>2 DEF BranchInv
  <2>3. CASE pc' = pc /\ UNCHANGED text
    <3>1. UNCHANGED <<pc, clean_lines, linenum, nesting_state>>
      BY <2>3 DEF text
    <3>2. (Balanced' <=> Balanced) /\ (ArgumentsStandAlone' <=> ArgumentsStandAlone)
      BY <3>1, BranchesStay
    <3>3. BranchParts(nesting_state, linenum - 1) => BranchParts(nesting_state, linenum - 1)'
      BY <3>1, BranchPrimed
    <3> QED
      BY <3>1, <3>2, <3>3 DEF Inv, BranchInv, BranchParts
  <2> QED
    BY <2>1, <2>2, <2>3
<1> QED
  BY <1>1, <1>2, <1>3

-----------------------------------------------------------------------------
(* The whole.                                                              *)
\* The first state: no search has begun, and nothing is reported.
LEMMA InitInv == Init => Inv
<1> SUFFICES ASSUME Init PROVE Inv
  OBVIOUS
<1>1. settings \in Settings
  BY DEF Init, Settings, Default
<1>2. todo = <<>> /\ cfg_filters = <<>> /\ pc = "arguments" /\ WellTyped(job)
  BY DEF Init
<1>3. ConfigInv
  BY <1>1, <1>2, EmptySeq DEF ConfigInv, OneFile
<1>4. reported = <<>> /\ error_count = 0 /\ errors_by_category = <<>>
  BY DEF Init
<1>5. CountsOf(<<>>) = <<>>
  <2>1. Range(<<>>) = {}
    BY EmptySeq DEF Range
  <2>2. {Counted(q.error.category) : q \in Range(<<>>)} = {}
    BY <2>1
  <2> QED
    BY <2>2 DEF CountsOf
<1>6. ReportInv
  BY <1>4, <1>5, ShortLists, EmptySeq DEF ReportInv
<1>7. LineInv
  BY <1>2 DEF LineInv
<1>8. StatusTellsReport
  BY <1>2, <1>6 DEF StatusTellsReport, ReportInv, CountsOf
<1>9. SignInv /\ NolintInv /\ SearchedInv
  BY <1>2 DEF SignInv, NolintInv, SearchedInv, OneFile
<1>10. LetThroughInv
  <2>1. Range(reported) = {}
    BY <1>4, EmptySeq DEF Range
  <2> QED
    BY <2>1 DEF LetThroughInv
<1>11. BlockInv /\ IncludeInv /\ FunctionInv /\ BranchInv
  BY <1>2 DEF BlockInv, IncludeInv, FunctionInv, BranchInv
<1>12. OnceInv
  BY <1>2, <1>4, EmptySeq DEF OnceInv, IsInjective, Range
<1> QED
  BY <1>2, <1>3, <1>6, <1>7, <1>8, <1>9, <1>10, <1>11, <1>12 DEF Inv

\* The job stays, and what is reported is counted.
LEMMA NextInv == Inv /\ [Next]_vars => Inv'
<1> SUFFICES ASSUME Inv, [Next]_vars PROVE Inv'
  OBVIOUS
<1>1. job' = job
  BY DEF Next, vars, ParseArguments, BadArguments, BackupFilters, ProcessConfigOverrides, AddFilters,
         BadFilter, SkipInput, IgnoreFile, ProcessFileData, ProcessLine, EndOfFile, RestoreFilters,
         Finish, Exited
<1>2. WellTyped(job)'
  BY <1>1 DEF Inv, WellTyped
<1>3. ConfigInv'
  BY NextConfig
<1>4. ReportInv' /\ LineInv' /\ NolintInv' /\ LetThroughInv' /\ SearchedInv'
  BY FileBegins, LineIsChecked, FileEnds, OthersReportNothing
<1>5. StatusTellsReport'
  BY <1>4, StatusStep
<1>6. SignInv'
  BY SignsAreChecked
<1>7. BlockInv'
  BY <1>4, BlocksFollow
<1>8. OnceInv' /\ IncludeInv' /\ FunctionInv' /\ BranchInv'
  BY OnceStep, IncludeStep, FunctionStep, BranchStep
<1> QED
  BY <1>2, <1>3, <1>4, <1>5, <1>6, <1>7, <1>8 DEF Inv

\* The search holds the filters between the directory it is at and the file, the filters
\* to set back are those of the program and the command line, every error that is
\* printed is counted, in its category and in all, what suppresses an error are the
\* NOLINT comments of the lines read so far, no error passes them or is held back by
\* anything else, the blocks around a line follow the braces before it and are those of
\* the first branches of its conditionals, and the function and the lists of includes
\* that are kept are those of the lines before it
\* (ProcessConfigOverrides, _BackupFilters, _RestoreFilters, Error,
\* IncrementErrorCount, ParseNolintSuppressions, ProcessLine, NestingState.Update,
\* CheckForFunctionLengths, CheckIncludeLine, ResetSection).
THEOREM Invariance == Spec => []Inv
  BY InitInv, NextInv, PTL DEF Spec

\* A file is linted with the filters of the program, the command line and the
\* directories above it, and those of no file before it.
THEOREM FiltersAreRight == Spec => []FiltersAreOfTheFile
<1>1. Inv => FiltersAreOfTheFile
  BY DEF Inv, ConfigInv, FiltersAreOfTheFile
<1> QED
  BY <1>1, Invariance, PTL

\* The program exits with 1 exactly when it has reported an error, unless its command
\* line or a configuration is bad, and the count of every category that was reported
\* is the number of its errors (main, PrintErrorCounts).
THEOREM StatusIsRight == Spec => []StatusTellsReport
<1>1. Inv => StatusTellsReport
  BY DEF Inv
<1> QED
  BY <1>1, Invariance, PTL

\* When all lines of a file without assembly are read, what is wrong on a line has been
\* reported exactly when no NOLINT comment of the line, of the one before or of the
\* file is meant for it and the filters and the verbosity admit it: nothing of the
\* files before it counts (ProcessFileData, ResetNolintSuppressions, _ShouldPrintError).
THEOREM OffencesAreExact == Spec => []OffencesAreReported
<1>1. Inv => OffencesAreReported
  <2> SUFFICES ASSUME Inv, AllRead, IsCalm, NEW n \in Lines, NEW t \in DOMAIN Offences, IsOffence(n, t)
               PROVE  OffenceIsReported(n, t) <=> Passes(n, Offences[t].category, Offences[t].confidence)
    BY DEF OffencesAreReported
  <2> DEFINE e == Err(n, Offences[t].category, Offences[t].confidence)
             r == [file |-> Head(todo), error |-> e]
  <2>1. /\ pc = "lines" /\ linenum > Len(clean_lines.raw)
        /\ clean_lines.elided \in Seq(Line) /\ Len(clean_lines.elided) = Len(clean_lines.raw)
        /\ clean_lines.raw = RawOf(Head(todo)) /\ linenum <= Len(clean_lines.raw) + 1
        /\ linenum \in Nat \ {0}
    BY DEF AllRead, Inv, LineInv, NolintInv, Line
  <2>2. n \in 1..(linenum - 1) /\ n \in 1..Len(RawOf(Head(todo)))
    BY <2>1, LenProperties DEF Lines
  <2>3. IsAnswered(n, t)
    BY <2>1, <2>2 DEF Inv, SearchedInv
  <2>4. ASSUME OffenceIsReported(n, t)
        PROVE  Passes(n, Offences[t].category, Offences[t].confidence)
    <3>1. r \in Range(reported) /\ r.file = Head(todo) /\ r.error = e
      BY <2>4 DEF OffenceIsReported
    <3>2. /\ e.line = n /\ e.category = Offences[t].category
          /\ e.confidence = Offences[t].confidence
      BY DEF Err
    <3> HIDE DEF r, e
    <3>3. IsLetThrough(Head(todo), e)
      BY <3>1 DEF Inv, LetThroughInv
    <3>4. Offences[t].category # MultilineComment
      BY OffencesAssumption
    <3> QED
      BY <2>2, <3>2, <3>3, <3>4 DEF IsLetThrough, Passes, Admitted
  <2> QED
    BY <2>3, <2>4 DEF IsAnswered
<1> QED
  BY <1>1, Invariance, PTL

\* While a file without conditionals is read whose heads are complete, and on no line of
\* which a brace closes between a namespace and the next brace that opens, the blocks on
\* the stack whose brace was seen are as many as the braces open behind the lines read
\* (NestingState.Update).
THEOREM BlocksAreBraces == Spec => []OpenBlocksAreBraces
<1>1. Inv => OpenBlocksAreBraces
  <2> SUFFICES ASSUME BlockInv PROVE OpenBlocksAreBraces
    BY DEF Inv
  <2> SUFFICES ASSUME pc = "lines", ~Conditional, HeadsAreComplete(clean_lines.elided),
                      NoneEndsAhead(clean_lines.elided)
               PROVE  OpenBlocks(nesting_state.stack) = OpenBraces(clean_lines.elided)[linenum - 1]
    BY DEF OpenBlocksAreBraces
  <2> DEFINE stack == nesting_state.stack
             depth == OpenBraces(clean_lines.elided)[linenum - 1]
  <2>1. Follows(clean_lines.elided, stack, depth, <<linenum, 0>>)
    BY DEF BlockInv
  <2> HIDE DEF stack, depth
  <2>2. IsOpenBelow(stack) /\ depth = IF SeenOpenBrace(stack) THEN Len(stack) ELSE Len(stack) - 1
    BY <2>1 DEF Follows, IsOpenBelow
  <2>3. OpenBlocks(stack) = depth
    BY <2>2, OpenBlocksAre
  <2> QED
    BY <2>3 DEF stack, depth
<1> QED
  BY <1>1, Invariance, PTL

\* Behind the last line, all lines are before the one that would be next.
LEMMA AllAreRead ==
  ASSUME Inv, AllRead
  PROVE  /\ pc = "lines" /\ Included \subseteq Lines
         /\ \A n \in Lines : n \in Nat \ {0} /\ n < linenum /\ Elided(n) \in Line
         /\ \A i \in Nat \ {0} : \A j \in Lines : i <= j => i \in Lines
<1>1. /\ pc = "lines" /\ linenum > Len(clean_lines.raw) /\ linenum \in Nat \ {0}
      /\ clean_lines.elided \in Seq(Line) /\ Len(clean_lines.elided) = Len(clean_lines.raw)
  BY DEF AllRead, Inv, LineInv, Line
<1>2. Lines = 1..Len(clean_lines.raw) /\ Len(clean_lines.raw) \in Nat
  BY <1>1, LenProperties DEF Lines
<1>3. \A n \in Lines : Elided(n) \in Line
  BY <1>1, ElementOfSeq DEF Elided, Lines
<1> QED
  BY <1>1, <1>2, <1>3 DEF Included

\* When all lines of a file without assembly are read that is named once, the errors of
\* its functions are at the ends of those with more lines than the verbosity allows and
\* at the heads of which nothing tells whether they have a body, where no NOLINT comment
\* and no filter silences them, each with the confidence that the number of its lines
\* gives (CheckForFunctionLengths, _FunctionState.Check).
THEOREM LongFunctionsAreRight == Spec => []LongFunctionsAreFound
<1>1. Inv => LongFunctionsAreFound
  <2> SUFFICES ASSUME Inv, AllRead, IsCalm, Once
               PROVE  /\ ErrorsOf(FnSize) = {n \in Lines : (IsTooLong(n) \/ IsUnfinished(n))
                                                             /\ Passes(n, FnSize, 5)}
                      /\ LengthsAreGraded
    BY DEF LongFunctionsAreFound
  <2>1. /\ ErrorsOf(FnSize) = {n \in Lines : n < linenum /\ (IsTooLong(n) \/ IsUnfinished(n))
                                                         /\ Passes(n, FnSize, 5)}
        /\ LengthsAreGraded
    BY AllAreRead DEF Inv, FunctionInv
  <2>2. \A n \in Lines : n < linenum
    BY AllAreRead
  <2> QED
    BY <2>1, <2>2
<1> QED
  BY <1>1, Invariance, PTL

\* When all lines of such a file are read, a system header has been found out of order
\* exactly when it stands behind one of a later section with no directive in between
\* (CheckNextIncludeOrder, _ClassifyInclude, ResetSection).
THEOREM SystemHeadersAreFirst == Spec => []SystemHeadersComeFirst
<1>1. Inv => SystemHeadersComeFirst
  <2> SUFFICES ASSUME Inv, AllRead, IsCalm, Once
               PROVE  ErrorsOf(IncludeOrder) = {n \in Included : Counts(n) /\ IsLate(n)
                                                                   /\ Passes(n, IncludeOrder, 4)}
    BY DEF SystemHeadersComeFirst
  <2>1. ErrorsOf(IncludeOrder) = {n \in Included : n < linenum /\ Counts(n) /\ IsLate(n)
                                                     /\ Passes(n, IncludeOrder, 4)}
    BY AllAreRead DEF Inv, IncludeInv
  <2>2. \A n \in Included : n < linenum
    BY AllAreRead
  <2> QED
    BY <2>1, <2>2
<1> QED
  BY <1>1, Invariance, PTL

\* When all lines of such a file are read and its conditionals are balanced and not nested,
\* a header has been found to be included already exactly when one that was recorded with
\* its path stands before it, in no branch that an #else has ended, or when it is a source
\* of another directory (CheckIncludeLine, FindHeader, ResetSection).
THEOREM DuplicatesAreRight == Spec => []DuplicatesAreReal
<1>1. Inv => DuplicatesAreReal
  <2> DEFINE Twin(m, n) == /\ Recorded(m) /\ m < n /\ HeaderAt(m).path = HeaderAt(n).path
                             /\ ~\E e \in m..n : ElseOf(m, e)
  <2> SUFFICES ASSUME Inv, AllRead, IsCalm, Once, Flat
               PROVE  ErrorsOf(BuildInclude) =
                        {n \in Included : Passes(n, BuildInclude, 4)
                                            /\ (Foreign(n) \/ \E m \in Included : Twin(m, n))}
    BY Zenon DEF DuplicatesAreReal
  <2>1. ErrorsOf(BuildInclude) = {n \in Included : n < linenum /\ (Foreign(n) \/ IsAgain(n))
                                                     /\ Passes(n, BuildInclude, 4)}
    BY AllAreRead DEF Inv, IncludeInv
  <2>2. /\ Included \subseteq Lines /\ Lines \subseteq Nat \ {0} /\ \A n \in Lines : n < linenum
        /\ \A i \in Nat \ {0} : \A j \in Lines : i <= j => i \in Lines
    BY AllAreRead
  <2>3. ASSUME NEW n \in Included PROVE IsAgain(n) <=> \E m \in Included : Twin(m, n)
    <3>1. DirectiveAt(n) = NONE /\ NONE # "#else"
      <4>1. Elided(n) \in Line /\ IsInclude(Elided(n))
        BY <2>2, AllAreRead DEF Included
      <4> QED
        BY <4>1, DirectiveIs
    <3>2. \A m \in Included : m < n => (Ended(m, n) <=> \E e \in m..n : ElseOf(m, e))
      BY <2>2, <3>1, BranchesEnd
    <3>3. IsAgain(n) <=> \E m \in Included : m < n /\ Recorded(m) /\ ~Ended(m, n)
                                               /\ HeaderAt(m).path = HeaderAt(n).path
      BY Zenon DEF IsAgain, Heard
    <3> QED
      BY <3>2, <3>3
  <2>4. \A n \in Included : n < linenum
    BY <2>2
  <2> HIDE DEF Twin
  <2> QED
    BY <2>1, <2>3, <2>4
<1> QED
  BY <1>1, Invariance, PTL

\* When all lines of a file are read with balanced conditionals, and no argument of a
\* template is one for what stands behind an #else, the blocks are those of the file
\* without what stands there, but for where their classes end (UpdatePreprocessor).
THEOREM BranchesLeaveNoTrace == Spec => []ElseLeavesNoTrace
<1>1. Inv => ElseLeavesNoTrace
  <2> DEFINE n == Len(clean_lines.elided)
  <2> SUFFICES ASSUME Inv, AllRead, Balanced, ArgumentsStandAlone
               PROVE  Blocks(nesting_state.stack) = Blocks(BlocksRead(FirstBranches)[n])
    BY DEF ElseLeavesNoTrace
  <2>1. pc = "lines" /\ linenum > Len(clean_lines.raw) /\ linenum \in Nat \ {0}
    BY DEF AllRead, Inv, LineInv
  <2>2. linenum <= Len(clean_lines.raw) + 1 /\ Len(clean_lines.raw) = n
    BY <2>1 DEF Inv, LineInv, NolintInv
  <2>3. Lines = 1..n /\ n \in Nat
    BY <2>1, LenProperties DEF Inv, LineInv, Lines
  <2>4. linenum - 1 = n
    BY <2>1, <2>2, <2>3
  <2>5. Depth(n) = 0
    <3>1. CASE n = 0
      BY <3>1, NoneIsOpen
    <3>2. CASE n # 0
      BY <2>3, <3>2 DEF Balanced
    <3> QED
      BY <3>1, <3>2
  <2>6. ~InElse(n)
    BY <2>5 DEF InElse
  <2>7. BranchParts(nesting_state, n)
    BY <2>1, <2>4 DEF Inv, BranchInv, BranchParts
  <2> HIDE DEF n
  <2> QED
    BY <2>6, <2>7, Zenon DEF BranchParts
<1> QED
  BY <1>1, Invariance, PTL
=============================================================================
