----------------------------- MODULE LuaPattern -----------------------------
(***************************************************************************)
(* Pattern matching of the scripts' string library                         *)
(* (src/netdisk4tc/lua/lstrlib.c): a matcher that walks subject and        *)
(* pattern text side by side, backtracks, and keeps the captures in one    *)
(* array that every failed attempt has to put back; and the loops of find, *)
(* gmatch and gsub around it.                                              *)
(*                                                                         *)
(* Texts are sequences of characters.  A match attempt answers with the    *)
(* position behind the match, NULL or an error, and the captures as they   *)
(* are then: a failed attempt does not restore them by itself.             *)
(***************************************************************************)
EXTENDS SequencesExt, FiniteSetsExt, Integers

CONSTANTS Subjects,         \* subject texts
          Patterns,         \* patterns, as sequences of items (see ItemText)
          Replacements,     \* gsub's replacement: a text, or Keep
          Keep,             \* a function or table that has nothing for the match
          MaxCaptures       \* LUA_MAXCAPTURES

VARIABLES subject, items, anchored,     \* the arguments; the pattern's text is Pattern
          lib                           \* the library function at work and its answer

patternVars == <<subject, items, anchored, lib>>

-----------------------------------------------------------------------------
(* Characters and classes                                                  *)

Letters == <<"a", "b", "c", "d">>
Digits == <<"0", "1", "2">>
Chars == Range(Letters) \cup Range(Digits)

(* The character at position i, or the zero behind the text's end.         *)
At(text, i) == IF i \in DOMAIN text THEN text[i] ELSE "zero"

IsDigit(c) == c \in Range(Digits)
Number(c) == (CHOOSE i \in DOMAIN Digits : Digits[i] = c) - 1

(* match_class, of %a and %d, their complements and quoted characters.     *)
ClassMatches(c, class) ==
    CASE class = "a" -> c \in Range(Letters)
      [] class = "A" -> c \notin Range(Letters)
      [] class = "d" -> IsDigit(c)
      [] class = "D" -> ~IsDigit(c)
      [] OTHER -> c = class

(* The order of characters, for ranges.                                    *)
Upto(lo, c, hi) ==
    \E order \in {Letters, Digits} : \E i, j, k \in DOMAIN order :
        i <= j /\ j <= k /\ order[i] = lo /\ order[j] = c /\ order[k] = hi

NULL == 0
Error == -1
Answer(e, caps) == [e |-> e, caps |-> caps]

(* classend: behind the single character, class or set at p.               *)
ClassEnd(pat, p) ==
    LET close[q \in 1 .. Len(pat) + 2] ==
            LET next == IF At(pat, q) = "%" /\ At(pat, q + 1) # "zero" THEN q + 2 ELSE q + 1
            IN  IF At(pat, q) = "zero" THEN Error
                ELSE IF At(pat, next) = "]" THEN next + 1 ELSE close[next]
    IN  CASE At(pat, p) = "%" -> IF At(pat, p + 1) = "zero" THEN Error ELSE p + 2
          [] At(pat, p) = "[" -> close[IF At(pat, p + 1) = "^" THEN p + 2 ELSE p + 1]
          [] OTHER -> p + 1

(* matchbracketclass: the set from p to its ] at ec.                       *)
BracketMatches(c, pat, p, ec) ==
    LET inverted == At(pat, p + 1) = "^"
        member[q \in 1 .. Len(pat) + 3] ==
            IF q >= ec THEN FALSE
            ELSE IF At(pat, q) = "%" THEN ClassMatches(c, At(pat, q + 1)) \/ member[q + 2]
            ELSE IF At(pat, q + 1) = "-" /\ q + 2 < ec
                 THEN Upto(At(pat, q), c, At(pat, q + 2)) \/ member[q + 3]
            ELSE At(pat, q) = c \/ member[q + 1]
    IN  member[IF inverted THEN p + 2 ELSE p + 1] # inverted

SingleMatch(c, pat, p, ep) ==
    CASE At(pat, p) = "." -> TRUE
      [] At(pat, p) = "%" -> ClassMatches(c, At(pat, p + 1))
      [] At(pat, p) = "[" -> BracketMatches(c, pat, p, ep - 1)
      [] OTHER -> At(pat, p) = c

-----------------------------------------------------------------------------
(* The matcher.  w holds the two texts, match is the matcher itself, for   *)
(* the rest of the pattern: from positions in subject and pattern with the *)
(* captures so far to the answer.                                          *)

UNFINISHED == -1
POSITION == -2
Capture == [init : Nat, len : {UNFINISHED, POSITION} \cup Nat]

Singles(w, s, p, ep) == s <= Len(w.src) /\ SingleMatch(At(w.src, s), w.pat, p, ep)

(* Behind a balanced stretch that begins at s.                             *)
MatchBalance(w, s, p) ==
    LET b == At(w.pat, p)
        e == At(w.pat, p + 1)
        scan[i \in 1 .. Len(w.src) + 1, cont \in 0 .. Len(w.src)] ==
            IF i > Len(w.src) THEN NULL
            ELSE IF w.src[i] = e THEN IF cont = 1 THEN i + 1 ELSE scan[i + 1, cont - 1]
            ELSE scan[i + 1, IF w.src[i] = b THEN cont + 1 ELSE cont]
    IN  IF b = "zero" \/ e = "zero" THEN Error
        ELSE IF At(w.src, s) # b THEN NULL ELSE scan[s + 1, 1]

(* The rest of the pattern after the most repetitions, then one fewer.     *)
MaxExpand(match, w, caps, s, p, ep) ==
    LET most == Max({i \in 0 .. Len(w.src) + 1 - s : \A j \in 0 .. i - 1 : Singles(w, s + j, p, ep)})
        fewer[i \in Nat, cs \in Seq(Capture)] ==
            LET res == match[s + i, ep + 1, cs]
            IN  IF res.e # NULL \/ i = 0 THEN res ELSE fewer[i - 1, res.caps]
    IN  fewer[most, caps]

MinExpand(match, w, caps, s, p, ep) ==
    LET more[i \in Nat, cs \in Seq(Capture)] ==
            LET res == match[i, ep + 1, cs]
            IN  IF res.e = NULL /\ Singles(w, i, p, ep) THEN more[i + 1, res.caps] ELSE res
    IN  more[s, caps]

StartCapture(match, caps, s, p, what) ==
    LET res == match[s, p, Append(caps, [init |-> s, len |-> what])]
    IN  IF Len(caps) >= MaxCaptures THEN Answer(Error, caps)
        ELSE IF res.e = NULL THEN Answer(NULL, Front(res.caps)) ELSE res

Open(caps) == {l \in DOMAIN caps : caps[l].len = UNFINISHED}
Closed(caps, s) == [caps EXCEPT ![Max(Open(caps))].len = s - caps[Max(Open(caps))].init]

(* Mutant: the capture stays closed when the rest did not match.           *)
EndCapture_StaysClosed(match, caps, s, p) ==
    IF Open(caps) = {} THEN Answer(Error, caps) ELSE match[s, p, Closed(caps, s)]

EndCapture(match, caps, s, p) ==
    IF Open(caps) = {} THEN Answer(Error, caps)
    ELSE LET res == match[s, p, Closed(caps, s)]
         IN  IF res.e = NULL THEN Answer(NULL, [res.caps EXCEPT ![Max(Open(caps))].len = UNFINISHED])
             ELSE res

(* Behind the text of capture l, if the subject goes on with it.  The      *)
(* length of a position capture is a huge unsigned number.                 *)
MatchCapture(w, caps, s, l) ==
    LET c    == caps[l]
        goes == c.len >= 0 /\ s + c.len <= Len(w.src) + 1
    IN  IF l \notin DOMAIN caps \/ l \in Open(caps) THEN Error
        ELSE IF goes /\ SubSeq(w.src, c.init, c.init + c.len - 1) = SubSeq(w.src, s, s + c.len - 1)
             THEN s + c.len ELSE NULL

(* The item at p with its repetition.                                      *)
MatchItem(match, w, caps, s, p) ==
    LET ep  == ClassEnd(w.pat, p)
        m   == Singles(w, s, p, ep)
        res == match[s + 1, ep + 1, caps]
        one == At(w.pat, ep)
    IN  IF ep = Error THEN Answer(Error, caps)
        ELSE CASE one = "?" -> IF ~m THEN match[s, ep + 1, caps]
                               ELSE IF res.e # NULL THEN res ELSE match[s, ep + 1, res.caps]
               [] one = "*" -> MaxExpand(match, w, caps, s, p, ep)
               [] one = "+" -> IF m THEN MaxExpand(match, w, caps, s + 1, p, ep) ELSE Answer(NULL, caps)
               [] one = "-" -> MinExpand(match, w, caps, s, p, ep)
               [] OTHER -> IF m THEN match[s + 1, ep, caps] ELSE Answer(NULL, caps)

(* What goes on at pattern position p from a place in the subject.         *)
Onward(match, caps, place, p) == IF place \in {NULL, Error} THEN Answer(place, caps) ELSE match[place, p, caps]

Frontier(match, w, caps, s, p) ==
    LET ep       == ClassEnd(w.pat, p)
        within(c) == BracketMatches(c, w.pat, p, ep - 1)
    IN  IF At(w.pat, p) # "[" \/ ep = Error THEN Answer(Error, caps)
        ELSE IF ~within(At(w.src, s - 1)) /\ within(At(w.src, s)) THEN match[s, ep, caps]
        ELSE Answer(NULL, caps)

Match(w, caps, s, p) ==
    LET match[i \in Nat, j \in Nat, cs \in Seq(Capture)] ==
            LET c    == At(w.pat, j)
                next == At(w.pat, j + 1)
            IN  CASE c = "(" -> IF next = ")" THEN StartCapture(match, cs, i, j + 2, POSITION)
                                ELSE StartCapture(match, cs, i, j + 1, UNFINISHED)
                  [] c = ")" -> EndCapture(match, cs, i, j + 1)
                  [] c = "%" /\ next = "b" -> Onward(match, cs, MatchBalance(w, i, j + 2), j + 4)
                  [] c = "%" /\ next = "f" -> Frontier(match, w, cs, i, j + 2)
                  [] c = "%" /\ IsDigit(next) -> Onward(match, cs, MatchCapture(w, cs, i, Number(next)), j + 2)
                  [] c = "zero" -> Answer(i, cs)
                  [] c = "$" /\ next = "zero" -> Answer(IF i = Len(w.src) + 1 THEN i ELSE NULL, cs)
                  [] OTHER -> MatchItem(match, w, cs, i, j)
    IN  match[s, p, caps]

-----------------------------------------------------------------------------
(* The library functions                                                   *)

(* An item is a character or class with its members and repetition, a      *)
(* group, a position, a capture's text again, a balanced stretch, the edge *)
(* of a set, or the end of the subject.                                    *)
RECURSIVE ItemText(_)
ItemText(item) ==
    CASE item.is = "one"     -> item.text \o item.rep
      [] item.is = "group"   -> <<"(">> \o FlattenSeq([i \in DOMAIN item.of |-> ItemText(item.of[i])]) \o <<")">>
      [] item.is = "here"    -> <<"(", ")">>
      [] item.is = "again"   -> <<"%", Digits[item.n + 1]>>
      [] item.is = "balance" -> <<"%", "b", item.open, item.close>>
      [] item.is = "edge"    -> <<"%", "f">> \o item.text
      [] item.is = "end"     -> <<"$">>

Pattern == (IF anchored THEN <<"^">> ELSE << >>) \o FlattenSeq([i \in DOMAIN items |-> ItemText(items[i])])
W == [src |-> subject, pat |-> Pattern]
First == IF anchored THEN 2 ELSE 1
Behind == Len(subject) + 1

Specials == {"^", "$", "*", "+", "?", ".", "(", "[", "%", "-"}

(* push_onecapture, counted from one; the whole match if there is none.    *)
OneCapture(caps, i, s, e) ==
    IF i \notin DOMAIN caps THEN IF i = 1 THEN SubSeq(subject, s, e - 1) ELSE <<"error">>
    ELSE IF caps[i].len = UNFINISHED THEN <<"error">>
    ELSE IF caps[i].len = POSITION THEN <<"at", caps[i].init>>
    ELSE SubSeq(subject, caps[i].init, caps[i].init + caps[i].len - 1)

Captures(caps, s, e, n) == [i \in 1 .. n |-> OneCapture(caps, i, s, e)]
AllCaptures(caps, s, e) == Captures(caps, s, e, Max({1, Len(caps)}))

PatternInit ==
    /\ subject \in Subjects /\ items \in Patterns /\ anchored \in BOOLEAN
    /\ lib = [op |-> "none"]

(* lmemfind: the next place with the pattern's first character, and a look *)
(* at the rest.                                                            *)
LMemFind(s1, text) ==
    LET last == Len(subject) - Len(text) + 1
        from[s \in 1 .. Behind + 1] ==
            LET hits == {i \in s .. last : subject[i] = text[1]}
            IN  IF hits = {} THEN NULL
                ELSE IF SubSeq(subject, Min(hits), Min(hits) + Len(text) - 1) = text THEN Min(hits)
                ELSE from[Min(hits) + 1]
    IN  IF text = << >> THEN s1 ELSE from[s1]

(* posrelat, and the limits of the subject.                                *)
From(init) == Min({Max({IF init >= 0 THEN init ELSE Len(subject) + init + 1, 1}), Behind})

(* str_find_aux: the attempts from init on, each without captures.         *)
Nowhere == [s |-> NULL, e |-> NULL, caps |-> << >>]
FirstOf(res, s, later) ==
    IF res.e # NULL THEN [s |-> s, e |-> res.e, caps |-> res.caps]
    ELSE IF anchored THEN Nowhere ELSE later

Attempts(init) ==
    LET at[s \in 1 .. Behind + 1] ==
            IF s > Behind THEN Nowhere ELSE FirstOf(Match(W, << >>, s, First), s, at[s + 1])
    IN  at[init]

Called(op, init, plain, s, e, values) ==
    [op |-> op, init |-> init, plain |-> plain, s |-> s, e |-> e, values |-> values]

Found(init, r) ==
    IF r.e = Error THEN [op |-> "error"]
    ELSE Called("find", init, FALSE, r.s, r.e, Captures(r.caps, r.s, r.e, Len(r.caps)))

FoundText(init, plain, at) ==
    Called("find", init, plain, at, IF at = NULL THEN NULL ELSE at + Len(Pattern), << >>)

StrFind(init, plain) ==
    /\ lib.op = "none"
    /\ lib' = IF plain \/ Range(Pattern) \cap Specials = {}
              THEN FoundText(init, plain, LMemFind(From(init), Pattern)) ELSE Found(init, Attempts(From(init)))
    /\ UNCHANGED <<subject, items, anchored>>

Matched(init, r) ==
    IF r.e = Error THEN [op |-> "error"]
    ELSE Called("match", init, FALSE, r.s, r.e, IF r.s = NULL THEN << >> ELSE AllCaptures(r.caps, r.s, r.e))

StrMatch(init) ==
    /\ lib.op = "none"
    /\ lib' = Matched(init, Attempts(From(init)))
    /\ UNCHANGED <<subject, items, anchored>>

(* gmatch: the position the next call goes on from.                        *)
GMatch ==
    /\ lib.op = "none" /\ ~anchored
    /\ lib' = [op |-> "gmatch", next |-> 1, got |-> << >>, done |-> FALSE]
    /\ UNCHANGED <<subject, items, anchored>>

Yielded(r) ==
    IF r.e = Error THEN [op |-> "error"]
    ELSE IF r.s = NULL THEN [lib EXCEPT !.done = TRUE]
    ELSE [lib EXCEPT !.next = IF r.e = r.s THEN r.e + 1 ELSE r.e,
                     !.got = Append(@, AllCaptures(r.caps, r.s, r.e))]

GMatchAux ==
    /\ lib.op = "gmatch" /\ ~lib.done
    /\ lib' = Yielded(IF lib.next > Behind THEN Nowhere ELSE Attempts(lib.next))
    /\ UNCHANGED <<subject, items, anchored>>

StrGSub(repl, max) ==
    /\ lib.op = "none"
    /\ lib' = [op |-> "gsub", repl |-> repl, max |-> max, src |-> 1, n |-> 0, out |-> << >>,
               caps |-> << >>, done |-> FALSE]
    /\ UNCHANGED <<subject, items, anchored>>

(* add_value, with add_s for a text.                                       *)
AddValue(repl, caps, s, e) ==
    LET add[i \in 1 .. Len(repl) + 2] ==
            IF i > Len(repl) THEN << >>
            ELSE IF repl[i] # "%" THEN <<repl[i]>> \o add[i + 1]
            ELSE (IF ~IsDigit(At(repl, i + 1)) THEN <<At(repl, i + 1)>>
                  ELSE IF repl[i + 1] = "0" THEN SubSeq(subject, s, e - 1)
                  ELSE OneCapture(caps, Number(repl[i + 1]), s, e)) \o add[i + 2]
    IN  IF repl = Keep THEN SubSeq(subject, s, e - 1) ELSE add[1]

(* Mutant: an attempt goes on with the captures of the match before it.    *)
NoCaptures_Kept == lib.caps

(* The captures an attempt of gsub starts with: ms.level = 0.              *)
NoCaptures == << >>

(* The loop of str_gsub: an attempt where the last match ended, or at the  *)
(* next character after one that took none; the text left comes behind.    *)
Replaced(r) ==
    LET goes == r.e > lib.src
        src  == IF goes THEN r.e ELSE Min({lib.src + 1, Behind})
        stop == anchored \/ (~goes /\ lib.src = Behind)
        out  == (IF r.e = NULL THEN lib.out ELSE lib.out \o AddValue(lib.repl, r.caps, lib.src, r.e))
                \o IF goes THEN << >> ELSE SubSeq(subject, lib.src, src - 1)
    IN  IF r.e = Error THEN [op |-> "error"]
        ELSE [lib EXCEPT !.n = IF r.e = NULL THEN @ ELSE @ + 1, !.caps = r.caps, !.src = src,
                         !.out = IF stop THEN out \o SubSeq(subject, src, Len(subject)) ELSE out,
                         !.done = stop]

GSubLoop ==
    /\ lib.op = "gsub" /\ ~lib.done /\ lib.n < lib.max
    /\ lib' = Replaced(Match(W, NoCaptures, lib.src, First))
    /\ UNCHANGED <<subject, items, anchored>>

GSubEnd ==
    /\ lib.op = "gsub" /\ ~lib.done /\ lib.n >= lib.max
    /\ lib' = [lib EXCEPT !.done = TRUE, !.out = @ \o SubSeq(subject, lib.src, Len(subject))]
    /\ UNCHANGED <<subject, items, anchored>>

PatternNext ==
    \/ \E init \in {1, -1} : StrMatch(init) \/ \E plain \in BOOLEAN : StrFind(init, plain)
    \/ GMatch \/ GMatchAux \/ GSubLoop \/ GSubEnd
    \/ \E repl \in Replacements, max \in {1, Behind} : StrGSub(repl, max)

PatternSpec == PatternInit /\ [][PatternNext]_patternVars

-----------------------------------------------------------------------------
(* What a pattern means, by the reference manual: all the ways its items   *)
(* can match from position s on, in the order they are preferred, each     *)
(* with where it ends and what it captured.                                *)

(* How many times an item may be taken, the preferred number first.        *)
Counts(rep, most) ==
    LET down(lo) == [i \in 1 .. most - lo + 1 |-> most + 1 - i]
    IN  CASE rep = << >>  -> IF most >= 1 THEN <<1>> ELSE << >>
          [] rep = <<"?">> -> IF most >= 1 THEN <<1, 0>> ELSE <<0>>
          [] rep = <<"*">> -> down(0)
          [] rep = <<"+">> -> down(1)
          [] rep = <<"-">> -> [i \in 1 .. most + 1 |-> i - 1]

Balanced(src, i, e, open, close) ==
    Cardinality({j \in i .. e : src[j] = open}) = Cardinality({j \in i .. e : src[j] = close})

RECURSIVE Ways(_, _, _, _)
Ways(src, its, s, caps) ==
    LET item    == Head(its)
        rest    == Tail(its)
        in(i)   == IF i \in DOMAIN src THEN src[i] \in item.set ELSE "zero" \in item.set
        most    == Max({n \in 0 .. Len(src) + 1 - s : \A i \in s .. s + n - 1 : in(i)})
        counts  == Counts(item.rep, most)
        closed  == Closed(caps, s)
        text    == SubSeq(src, caps[item.n].init, caps[item.n].init + caps[item.n].len - 1)
        ends    == {e \in s .. Len(src) : Balanced(src, s, e, item.open, item.close)}
    IN  IF its = << >> THEN <<Answer(s, caps)>>
        ELSE CASE item.is = "one" -> FlattenSeq([k \in DOMAIN counts |-> Ways(src, rest, s + counts[k], caps)])
               [] item.is = "group" ->
                    Ways(src, item.of \o <<[is |-> "close"]>> \o rest, s,
                         Append(caps, [init |-> s, len |-> UNFINISHED]))
               [] item.is = "close" -> Ways(src, rest, s, closed)
               [] item.is = "here"  -> Ways(src, rest, s, Append(caps, [init |-> s, len |-> POSITION]))
               [] item.is = "again" -> IF IsPrefix(text, SubSeq(src, s, Len(src)))
                                       THEN Ways(src, rest, s + Len(text), caps) ELSE << >>
               [] item.is = "balance" -> IF At(src, s) = item.open /\ ends # {}
                                         THEN Ways(src, rest, Min(ends) + 1, caps) ELSE << >>
               [] item.is = "edge"  -> IF ~in(s - 1) /\ in(s) THEN Ways(src, rest, s, caps) ELSE << >>
               [] item.is = "end"   -> IF s = Len(src) + 1 THEN <<Answer(s, caps)>> ELSE << >>

(* The first match from init on, and all that follow each other: the next  *)
(* begins where the last ended, one further on if that was empty.          *)
Starts(init) == {s \in init .. (IF anchored THEN init ELSE Behind) : Ways(subject, items, s, << >>) # << >>}
At1(s) == Ways(subject, items, s, << >>)[1]
FirstMatch(init) ==
    LET s == Min(Starts(init))
    IN  IF Starts(init) = {} THEN [s |-> NULL, e |-> NULL, caps |-> << >>]
        ELSE [s |-> s, e |-> At1(s).e, caps |-> At1(s).caps]

RECURSIVE MatchesFrom(_)
MatchesFrom(init) ==
    LET m == FirstMatch(init)
    IN  IF init > Behind \/ m.s = NULL THEN << >>
        ELSE <<m>> \o IF anchored THEN << >> ELSE MatchesFrom(IF m.e = m.s THEN m.e + 1 ELSE m.e)

IsAnswer(m) ==
    /\ lib.s = m.s /\ lib.e = m.e
    /\ m.s # NULL => lib.values = IF lib.op = "match" THEN AllCaptures(m.caps, m.s, m.e)
                                  ELSE Captures(m.caps, m.s, m.e, Len(m.caps))

IsPlace ==
    LET found == {s \in From(lib.init) .. Behind :
                    SubSeq(subject, s, Min({s + Len(Pattern) - 1, Len(subject)})) = Pattern}
    IN  lib.s = IF found = {} THEN NULL ELSE Min(found)

(* find and match answer with the first match, of all that begin there the *)
(* one the pattern prefers, and with what it captured - however much was   *)
(* tried and given up before (lstrlib.c:305, 316); a plain find with the   *)
(* first place of the text.  No well-formed pattern raises an error.       *)
MatchMeansPattern ==
    /\ lib.op # "error"
    /\ lib.op \in {"find", "match"} => IF lib.plain THEN IsPlace ELSE IsAnswer(FirstMatch(From(lib.init)))

Values(m) == AllCaptures(m.caps, m.s, m.e)

(* The text with the matches ms replaced.                                  *)
WithMatches(ms) ==
    LET between(i) == SubSeq(subject, IF i = 1 THEN 1 ELSE ms[i - 1].e,
                             IF i > Len(ms) THEN Len(subject) ELSE ms[i].s - 1)
    IN  FlattenSeq([i \in DOMAIN ms |-> between(i) \o AddValue(lib.repl, ms[i].caps, ms[i].s, ms[i].e)])
        \o between(Len(ms) + 1)

Follows(ms) ==
    /\ lib.op = "gmatch" => /\ IsPrefix(lib.got, [i \in DOMAIN ms |-> Values(ms[i])])
                            /\ lib.done => Len(lib.got) = Len(ms)
    /\ lib.op = "gsub" /\ lib.done =>
            LET made == SubSeq(ms, 1, Min({lib.max, Len(ms)}))
            IN  lib.n = Len(made) /\ lib.out = WithMatches(made)

(* gmatch yields, and gsub replaces, every match that follows from the     *)
(* last, the empty ones among them, each with its own captures; the rest   *)
(* of the text comes through unchanged, and both come to an end            *)
(* (lstrlib.c:553, 667).                                                   *)
EveryMatchOnce == lib.op \in {"gmatch", "gsub"} => Follows(MatchesFrom(1))
=============================================================================
