------------------------------- MODULE UrlRules -------------------------------
(***************************************************************************)
(* What decides whether a URL is asked for and where its body goes, as     *)
(* functions: the normal form of its path (internal/queue/strip.go), the   *)
(* verdict of robots.txt and which lines of the file count                 *)
(* (internal/robots/rules.go), the glob patterns that block it             *)
(* (internal/queue/glob.go) and its file (internal/storage/path.go).  A    *)
(* path is the sequence of what stands between its slashes, "" where there *)
(* is nothing; a text is a sequence of tokens, one of them the slash.      *)
(* url.Parse takes the escapes out of a path, and those that are left (it  *)
(* reads "a" from "%61", and "%61" from "%2561") are read again by some of *)
(* the rules, so that a name is given with what reading it once more makes *)
(* of it.                                                                  *)
(***************************************************************************)
EXTENDS Naturals, Sequences, FiniteSets, SequencesExt

CONSTANTS
  Name,          \* names in paths
  Dotted, Twice, \* those of them that hold a dot, and that hold ".." among other letters
  Escape,        \* for those with escapes in them: the segments they are when these are taken out
  Broken,        \* those with a "%" that begins no escape
  Before,        \* for those that hold a "?" or "#": what is before it
  Tilde,         \* for those that hold "%7E": what they are with "~" for it
  MaxSegments,   \* bound: segments of a path
  MaxLines,      \* bound: lines of a robots.txt
  Pattern        \* rules and glob patterns: texts that may hold "*" and "?"

Blank == ""   \* what stands between two slashes, or after the last, with nothing there
Segment == Name \cup {Blank, ".", ".."}

ASSUME RulesAssumption ==
  /\ Dotted \subseteq Name /\ Name \cap {"index.html"} \subseteq Dotted
  /\ Name \cap {Blank, ".", "..", "/"} = {}
  /\ Twice \subseteq Dotted \ {"index.html"} /\ Broken \subseteq Name \ DOMAIN Escape
  /\ DOMAIN Escape \subseteq Name /\ \A n \in DOMAIN Escape : Escape[n] \in Seq(Segment) \ {<<>>}
  /\ DOMAIN Before \subseteq Name /\ \A n \in DOMAIN Before : Before[n] \in Segment
  /\ "index.html" \notin DOMAIN Escape \cup Broken \cup DOMAIN Before
  /\ DOMAIN Tilde \subseteq DOMAIN Escape /\ \A n \in DOMAIN Tilde : Tilde[n] \in Name
  /\ Pattern \subseteq Seq(STRING)

VARIABLES
  path,          \* u.Path of a URL, its escapes taken out; <<>> before there is one
  lines          \* robots.txt: records of a key and a value

uvars == <<path, lines>>

Text(segments) ==
  LET t[i \in 0..Len(segments)] ==
        IF i = 0 THEN <<>>
        ELSE t[i - 1] \o (IF segments[i] = Blank THEN <<"/">> ELSE <<"/", segments[i]>>)
  IN t[Len(segments)]

(* s without the elements of drop.                                           *)
Without(s, drop) ==
  LET w[i \in 0..Len(s)] == IF i = 0 THEN <<>> ELSE IF s[i] \in drop THEN w[i - 1] ELSE Append(w[i - 1], s[i])
  IN w[Len(s)]

-----------------------------------------------------------------------------
(* url.PathUnescape: every escape is taken out once; with one that is none   *)
(* there is an error, and the callers keep the path.                         *)
Meant(name) == IF name \in DOMAIN Escape THEN Escape[name] ELSE <<name>>

Unescape(p) ==
  LET u[i \in 0..Len(p)] == IF i = 0 THEN <<>> ELSE u[i - 1] \o Meant(p[i])
  IN IF ToSet(p) \cap Broken # {} THEN p ELSE u[Len(p)]

(* url.Parse: the path of a URL that is written with p after its host ends   *)
(* at the first "?" or "#" (the query and fragment after it are not          *)
(* followed).                                                                *)
Parse(p) ==
  LET ends == {i \in 1..Len(p) : p[i] \in DOMAIN Before}
      end == CHOOSE i \in ends : \A k \in ends : i <= k
  IN Unescape(IF ends = {} THEN p ELSE Append(SubSeq(p, 1, end - 1), Before[p[end]]))

(* A path that holds nothing a second reading changes.                       *)
Literal(p) == ToSet(p) \cap (DOMAIN Escape \cup Broken \cup DOMAIN Before) = {}

-----------------------------------------------------------------------------
(* normalizePath: "//" and "/./" collapse, so that "" is left at most at the *)
(* end; ".." takes back what is before it, the root (here "/") included; a   *)
(* slash at the end goes.                                                    *)
Collapse(p) ==
  LET inner == Without(Front(p), {Blank, "."})
  IN <<"/">> \o inner \o (IF Last(p) = "." THEN <<>> ELSE <<Last(p)>>)

(* Fault: ".." is dropped and takes nothing back. *)
TakeBack_Drops(done, s) == IF s = ".." THEN done ELSE Append(done, s)

TakeBack(done, s) ==
  IF s # ".." THEN Append(done, s) ELSE IF done = <<>> THEN done ELSE Front(done)

Resolved(p) ==
  LET c == Collapse(p)
      done[i \in 0..Len(c)] == IF i = 0 THEN <<>> ELSE TakeBack(done[i - 1], c[i])
  IN done[Len(c)]

(* A root taken back is not put in again.                                    *)
Cleared(p) ==
  LET r == Resolved(p)
      body == Without(r, {Blank, "/"})
  IN IF r = <<>> \/ body = <<>> THEN <<Blank>> ELSE body

Tilded(p) == [i \in DOMAIN p |-> IF p[i] \in DOMAIN Tilde THEN Tilde[p[i]] ELSE p[i]]

(* What NormalizeURL writes after the host: what url.Parse has read, and no  *)
(* escapes again.                                                            *)
Normal(p) == Tilded(Cleared(p))

LosesRoot(p) == Resolved(p) # <<>> /\ Resolved(p)[1] \notin {"/", Blank}

(* The path of RFC 3986 without its dots, read from the right: a name counts *)
(* unless a ".." takes it back.                                              *)
Kept(p) ==
  LET names == Without(p, {Blank, "."})
      n == Len(names)
      \* read[i]: after the last i names, how many before them are to be taken back, and what counts
      read[i \in 0..n] ==
        IF i = 0 THEN [owed |-> 0, kept |-> <<>>]
        ELSE LET name == names[n + 1 - i]
                 after == read[i - 1]
             IN IF name = ".." THEN [owed |-> after.owed + 1, kept |-> after.kept]
                ELSE IF after.owed > 0 THEN [owed |-> after.owed - 1, kept |-> after.kept]
                ELSE [owed |-> 0, kept |-> <<name>> \o after.kept]
      kept == read[n].kept
  IN IF kept = <<>> THEN <<Blank>> ELSE kept

-----------------------------------------------------------------------------
(* The file of a path that ends in a slash, or in a name without a dot, is a *)
(* page's, and Join cleans what is written; wherever ".." stands, in a name  *)
(* too, it leads to one file for all.                                        *)
Index == "index.html"
HasDot(s) == s \in Dotted \cup {Index, ".", ".."}

FileOf(p) ==
  LET filled == IF Last(p) = Blank THEN Append(Front(p), Index) ELSE p
      page == IF HasDot(Last(filled)) THEN filled ELSE Append(filled, Index)
  IN IF ToSet(page) \cap (Twice \cup {".."}) # {} THEN <<"_safe_path">> ELSE Without(page, {Blank, "."})

(* PathForURL: the file, below the host's directory, of a URL without query; *)
(* escapes are taken out of what url.Parse has read.                         *)
PathForURL(p) == FileOf(Unescape(p))

(* The path of the URL a file is taken to come from; url.URL escapes it, so  *)
(* that it is what url.Parse reads.                                          *)
UrlFromLocalPath(file) == IF file = <<>> THEN <<Blank, Blank>> ELSE file

-----------------------------------------------------------------------------
(* matchPath: a rule is a prefix, its "*" stand for any text.                *)
MatchPath(rule, text) ==
  LET n == Len(rule)
      \* m[i]: where in the text the last i tokens of the rule may begin
      m[i \in 0..n] ==
        IF i = 0 THEN 1..Len(text) + 1
        ELSE LET rest == m[i - 1]
             IN IF rule[n + 1 - i] = "*" THEN {j \in 1..Len(text) + 1 : \E k \in rest : j <= k}
                ELSE {j \in 1..Len(text) : text[j] = rule[n + 1 - i] /\ j + 1 \in rest}
  IN rule # <<>> /\ 1 \in m[n]

Longest(rules, text) ==
  LET lengths == {Len(r) : r \in {r \in rules : MatchPath(r, text)}}
  IN IF lengths = {} THEN 0 ELSE CHOOSE n \in lengths : \A k \in lengths : k <= n

(* evaluateRules: the longest rule decides, an equal Allow against Disallow. *)
Allowed(allow, disallow, text) == Longest(allow, text) >= Longest(disallow, text)

(* fetchRobots: which lines are for us.  Once a group of ours has been       *)
(* found, no other begins; the wildcard's rules read before it stay.         *)

(* Fault: a group of ours begins also after another. *)
ReadLine_EveryGroup(st, line) ==
  IF line.key = "agent"
    THEN [specific |-> st.specific \/ line.value = "us",
          inOurs |-> line.value = "us" \/ (~st.specific /\ line.value = "*"), rules |-> st.rules]
    ELSE IF st.inOurs THEN [st EXCEPT !.rules = @ \cup {line.value}] ELSE st

ReadLine(st, line) ==
  IF line.key = "agent"
    THEN [specific |-> st.specific \/ line.value = "us",
          inOurs |-> ~st.specific /\ line.value \in {"us", "*"}, rules |-> st.rules]
    ELSE IF st.inOurs THEN [st EXCEPT !.rules = @ \cup {line.value}] ELSE st

(* What fetchRobots knows after each of the lines.                           *)
Reading(file) ==
  LET st[i \in 0..Len(file)] == IF i = 0 THEN [specific |-> FALSE, inOurs |-> FALSE, rules |-> {}]
                                         ELSE ReadLine(st[i - 1], file[i])
  IN st

RulesRead(file) == Reading(file)[Len(file)].rules

AgentBefore(file, i) == {j \in 1..i : file[j].key = "agent"}

-----------------------------------------------------------------------------
(* globMatchSimple over i (of the text) and p (of the pattern).  After "*"   *)
(* the loop looks for the next character of the pattern, or stops at a       *)
(* slash, and steps over the one it has found without advancing in the       *)
(* pattern.                                                                  *)
GlobMatchSimple(pat, text) ==
  LET n == Len(pat)
      Stops(c, i) == {j \in i..Len(text) : text[j] = "/" \/ c \in {text[j], "?"}}
      Found(c, i) == CHOOSE j \in Stops(c, i) : \A k \in Stops(c, i) : j <= k
      \* g[p]: where in the text the last p characters of the pattern match all that is left
      g[p \in 0..n] ==
        IF p = 0 THEN {i \in 1..Len(text) + 2 : i > Len(text)}
        ELSE LET c == pat[n + 1 - p]
                 rest == g[p - 1]
             IN {i \in 1..Len(text) + 2 :
                   IF i > Len(text) THEN \A q \in n + 1 - p..n : pat[q] = "*"
                   ELSE IF c = "*"
                     THEN IF p = 1 THEN \A j \in i..Len(text) : text[j] # "/"
                          ELSE Stops(pat[n + 2 - p], i) # {} /\ Found(pat[n + 2 - p], i) + 1 \in rest
                   ELSE (IF c = "?" THEN text[i] # "/" ELSE c = text[i]) /\ i + 1 \in rest}
  IN 1 \in g[n]

(* globMatchWithDoubleStar: what is before the first "**" has to match all   *)
(* of the text, what is between two of them the shortest text that begins    *)
(* where the one before ended, and what is after the last all that is left.  *)
DoubleStar(pat, text) ==
  LET n == Len(pat)
      stars == {p \in 1..n : pat[p] = "**"}
      first == CHOOSE p \in stars : \A k \in stars : p <= k
      LastBefore(p) == CHOOSE q \in stars : q < p /\ \A k \in stars : k < p => k <= q
      Skip(from, part) ==
        LET ends == {j \in from..Len(text) : GlobMatchSimple(part, SubSeq(text, from + 1, j))}
        IN IF part = <<>> \/ from > Len(text) THEN from
           ELSE IF ends = {} THEN Len(text) + 1 ELSE CHOOSE j \in ends : \A k \in ends : j <= k
      \* end[p]: how much of the text is matched before the last "**" of the first p characters
      end[p \in 0..n] ==
        IF p <= first THEN first - 1
        ELSE IF pat[p] # "**" THEN end[p - 1]
        ELSE Skip(end[p - 1], SubSeq(pat, LastBefore(p) + 1, p - 1))
      last == LastBefore(n + 1)
  IN /\ first > 1 => GlobMatchSimple(SubSeq(pat, 1, first - 1), text)
     /\ end[n] <= Len(text)
     /\ last < n => GlobMatchSimple(SubSeq(pat, last + 1, n), SubSeq(text, end[n] + 1, Len(text)))

GlobMatch(pat, text) == IF "**" \in ToSet(pat) THEN DoubleStar(pat, text) ELSE GlobMatchSimple(pat, text)

(* What its comment says of "**", "*" and "?".                               *)
GlobMeans(pat, text) ==
  LET n == Len(pat)
      \* m[p]: where in the text the last p characters of the pattern match all that is left
      m[p \in 0..n] ==
        IF p = 0 THEN {Len(text) + 1}
        ELSE LET c == pat[n + 1 - p]
                 rest == m[p - 1]
             IN {i \in 1..Len(text) + 1 :
                   IF c \in {"*", "**"}
                     THEN \E k \in rest : i <= k /\ (c = "**" \/ \A j \in i..k - 1 : text[j] # "/")
                     ELSE /\ i <= Len(text) /\ i + 1 \in rest
                          /\ c = text[i] \/ (c = "?" /\ text[i] # "/")}
  IN 1 \in m[n]

-----------------------------------------------------------------------------
RulesInit == path = <<>> /\ lines = <<>>

AddSegment ==
  /\ path # <<>> /\ Len(path) < MaxSegments /\ \E s \in Segment : path' = Append(path, s)
  /\ UNCHANGED lines

StartPath ==
  /\ path = <<>> /\ lines = <<>> /\ \E s \in Segment : path' = <<s>>
  /\ UNCHANGED lines

AddLine ==
  /\ path = <<>> /\ Len(lines) < MaxLines
  /\ \E l \in [key : {"agent"}, value : {"us", "them", "*"}]
              \cup [key : {"rule"}, value : {Len(lines)}] : lines' = Append(lines, l)
  /\ UNCHANGED path

RulesNext == AddSegment \/ StartPath \/ AddLine

-----------------------------------------------------------------------------
(* A path has one normal form, that of RFC 3986 less a slash at the end,     *)
(* unless its ".." lead above the root (where the host's name grows by what  *)
(* follows); where it is literal, the URL written with it has that normal    *)
(* form too.                                                                 *)
NormalForm ==
  path # <<>> /\ ~LosesRoot(path) =>
    /\ Normal(path) = Tilded(Kept(path))
    /\ Literal(path) => Normal(Parse(Normal(path))) = Normal(path)

(* The normal form of a literal path is refused where the path was, unless   *)
(* that was for a rule with a slash at its end.                              *)
RefusedInNormalForm ==
  path # <<>> /\ Literal(path) /\ ToSet(path) \subseteq Name \cup {Blank} =>
    \A allow, disallow \in {pat \in Pattern : "**" \notin ToSet(pat)} :
      /\ Allowed({allow}, {disallow}, Text(Parse(Normal(path))))
      /\ ~Allowed({allow}, {disallow}, Text(path))
      => Blank \in ToSet(Front(path)) \/ Last(Without(disallow, {"*"})) = "/"

(* However often its escapes are taken out, no path has a file outside the   *)
(* host's directory.  For a literal path whose names do not hold ".."        *)
(* (PathForURL has one file for all of these), the URL read off its file     *)
(* leads to that file again; it and its normal form have one file, unless a  *)
(* name with a dot has a slash after it; and no file is where another needs  *)
(* a directory, unless its name has a dot.                                   *)
FilesFit ==
  path # <<>> =>
    LET file == PathForURL(path)
        names == Without(path, {Blank})
    IN /\ ".." \notin ToSet(file)
       /\ Literal(path) /\ ToSet(path) \subseteq (Name \ Twice) \cup {Blank} =>
            /\ PathForURL(UrlFromLocalPath(file)) = file
            /\ \/ PathForURL(Parse(Normal(path))) = file
               \/ Last(path) = Blank /\ names # <<>> /\ Last(names) \in Dotted
            /\ \A k \in 1..Len(path) - 1 :
                 LET above == PathForURL(SubSeq(path, 1, k))
                 IN IsStrictPrefix(above, file) => Last(above) \in Dotted

(* Glob patterns that have no "*" but at the end match what their comment    *)
(* says.  Those with "**" fall short of it: what stands before the "**" has  *)
(* to be all of the text, so that "/a/**" matches nothing below "/a/"; but   *)
(* they match nothing that it does not say.                                  *)
GlobsMatchLess ==
  path # <<>> => \A pat \in Pattern : "*" \notin ToSet(Front(pat)) =>
    IF "**" \in ToSet(pat) THEN GlobMatch(pat, Text(path)) => GlobMeans(pat, Text(path))
    ELSE GlobMatch(pat, Text(path)) <=> GlobMeans(pat, Text(path))

(* A rule of robots.txt counts when it is in the first group that names us,  *)
(* or is anybody's before that (fetchRobots, whatever the order and number   *)
(* of the groups).                                                           *)
GroupsCount ==
  \A i \in DOMAIN lines : lines[i].key = "rule" =>
    LET agents == AgentBefore(lines, i)
        us == {j \in agents : lines[j].value = "us"}
        last == CHOOSE j \in agents : \A k \in agents : k <= j
    IN lines[i].value \in RulesRead(lines) <=>
         agents # {} /\ (us = {last} \/ (us = {} /\ lines[last].value = "*"))

(* The rules that are written apart in the code agree with each other: what  *)
(* is queued, refused, fetched and stored for one path is for that path.     *)
RulesAgree == NormalForm /\ RefusedInNormalForm /\ FilesFit /\ GlobsMatchLess
=============================================================================
