--------------------------- MODULE CommandLineProofs ---------------------------
(***************************************************************************)
(* Theorems about one call of pywrkr, for any command line, any call of the   *)
(* library, any number of URLs and any capacity search.                      *)
(***************************************************************************)
EXTENDS CommandLine, TLAPS

-------------------------------------------------------------------------------
(* The capacity search.                                                       *)

LEMMA ProductGrows ==
  ASSUME NEW n \in Nat, NEW a \in Nat, NEW b \in Nat, a <= b
  PROVE  n * a <= n * b /\ n * a \in Nat /\ n * b \in Nat
OBVIOUS

\* A quotient of integers is the greatest number whose product is not too large.
LEMMA QuotientReaches ==
  ASSUME NEW k \in Nat, NEW m \in Nat \ {0}, NEW n \in Nat, n * m <= k
  PROVE  k \div m \in Nat /\ n <= k \div m
OBVIOUS

\* The ramp always climbs.
LEMMA NextUsersIsMore ==
  ASSUME SearchKind(search), search.multiplier[1] > search.multiplier[2], NEW n \in Nat
  PROVE  NextUsers(n) \in Nat /\ n < NextUsers(n)
<1> DEFINE a == search.multiplier[1]
           m == search.multiplier[2]
<1>1. a \in Nat /\ m \in Nat \ {0} /\ m <= a
  BY DEF SearchKind
<1>2. n * m <= n * a /\ n * a \in Nat
  BY <1>1, ProductGrows
<1>3. (n * a) \div m \in Nat /\ n <= (n * a) \div m
  BY <1>1, <1>2, QuotientReaches
<1>4. Scaled(n) \in Nat /\ n <= Scaled(n)
  BY <1>3 DEF Scaled
<1>5. QED
  BY <1>4 DEF NextUsers

\* Half way between two numbers that are not neighbours is between them.
LEMMA MiddleIsBetween ==
  ASSUME NEW lo \in Nat, NEW hi \in Nat, hi - lo > 1
  PROVE  (lo + hi) \div 2 \in Nat /\ lo < (lo + hi) \div 2 /\ (lo + hi) \div 2 < hi
OBVIOUS

LEMMA ToleranceIsPositive ==
  ASSUME NEW n \in Nat
  PROVE  Tolerance(n) \in Nat /\ Tolerance(n) >= 1
BY DEF Tolerance

\* The ramp is above what passed and has not failed; the refinement stays between a
\* number that passed and one that failed.
Sustained == search.steady => good <= search.limit
Overloaded == search.steady => search.limit < bad

SearchInv ==
  /\ stage \in {"idle", "ramp", "refine", "found", "raised"}
  /\ users \in Int /\ good \in Nat /\ bad \in Nat
  /\ stage # "idle" => search \in Searches
  /\ stage \in {"idle", "raised"} => good = 0 /\ bad = 0
  /\ good > 0 => search.start <= good
  /\ stage = "ramp" =>
       /\ search.multiplier[1] > search.multiplier[2] /\ search.start >= 1 /\ users <= search.most
       /\ search.start <= users /\ bad = 0 /\ good < users /\ Sustained
       /\ IF good = 0 THEN users = search.start ELSE users = NextUsers(good)
  /\ stage = "refine" => 0 < good /\ good < bad /\ bad - good > 1 /\ Sustained /\ Overloaded
  /\ stage = "found" =>
       /\ bad > 0 => good < bad
       /\ search.start <= search.most =>
            /\ Sustained
            /\ bad > 0 => Overloaded
            /\ bad > 0 /\ good > 0 => bad - good <= Tolerance(good)
            /\ bad > 0 /\ good = 0 => bad = search.start
            /\ bad = 0 => good > 0 /\ good <= search.most /\ search.most < NextUsers(good)

LEMMA SearchInvImplies == ASSUME SearchInv PROVE CapacityIsFound
BY DEF SearchInv, CapacityIsFound, Sustained, Overloaded

\* The verdict of a step against a steady target.
LEMMA VerdictIsRight ==
  ASSUME NEW n, NEW r \in Measured(n), search.steady
  PROVE  StepPassed(r) <=> n <= search.limit
BY DEF Measured, StepPassed, Healthy

LEMMA BeginSearchKeeps ==
  ASSUME NEW s \in Searches, BeginSearch(s)
  PROVE  SearchInv'
<1>1. /\ search' = s /\ users' = s.start /\ good' = 0 /\ bad' = 0 /\ SearchKind(s)
      /\ stage' = IF s.multiplier[1] <= s.multiplier[2] \/ s.start < 1 THEN "raised"
                  ELSE IF s.start > s.most THEN "found" ELSE "ramp"
  BY AutofindAssumption DEF BeginSearch
<1>2. /\ s.start \in Int /\ s.most \in Nat /\ s.multiplier[1] \in Nat /\ s.multiplier[2] \in Nat
      /\ s.limit \in Nat /\ s.steady \in BOOLEAN
  BY <1>1 DEF SearchKind
<1>3. CASE stage' = "raised"
  BY <1>1, <1>2, <1>3 DEF SearchInv
<1>4. CASE stage' = "found"
  <2>1. s.start > s.most
    BY <1>1, <1>4
  <2>2. QED
    BY <1>1, <1>2, <1>4, <2>1 DEF SearchInv
<1>5. CASE stage' = "ramp"
  <2>1. s.multiplier[1] > s.multiplier[2] /\ s.start >= 1 /\ s.start <= s.most
    BY <1>1, <1>2, <1>5
  <2>2. QED
    BY <1>1, <1>2, <1>5, <2>1 DEF SearchInv, Sustained
<1>6. QED
  BY <1>1, <1>3, <1>4, <1>5

LEMMA RampStepKeeps ==
  ASSUME SearchInv, RampStep
  PROVE  SearchInv'
<1>1. /\ search' = search /\ search \in Searches /\ SearchKind(search)
      /\ search.multiplier[1] > search.multiplier[2] /\ search.start >= 1 /\ users <= search.most
      /\ search.start <= users /\ bad = 0 /\ good < users /\ Sustained /\ good \in Nat /\ users \in Int
      /\ IF good = 0 THEN users = search.start ELSE users = NextUsers(good)
  BY AutofindAssumption DEF RampStep, SearchInv
<1>2. /\ search.start \in Int /\ search.most \in Nat /\ search.limit \in Nat /\ search.steady \in BOOLEAN
      /\ users \in Nat /\ users > 0
  BY <1>1 DEF SearchKind
<1>3. NextUsers(users) \in Nat /\ users < NextUsers(users)
  BY <1>1, <1>2, NextUsersIsMore
<1>4. PICK r \in Measured(users) :
       \/ /\ StepPassed(r)
          /\ good' = users
          /\ users' = NextUsers(users)
          /\ stage' = IF NextUsers(users) <= search.most THEN "ramp" ELSE "found"
          /\ UNCHANGED bad
       \/ /\ ~StepPassed(r)
          /\ bad' = users
          /\ stage' = IF Unresolved(good, users) THEN "refine" ELSE "found"
          /\ UNCHANGED <<users, good>>
  BY DEF RampStep
<1>5. search.steady => (StepPassed(r) <=> users <= search.limit)
  BY VerdictIsRight
<1>6. \A n : NextUsers(n)' = NextUsers(n)
  BY <1>1 DEF NextUsers, Scaled
<1>7. CASE /\ StepPassed(r)
           /\ good' = users
           /\ users' = NextUsers(users)
           /\ stage' = IF NextUsers(users) <= search.most THEN "ramp" ELSE "found"
           /\ UNCHANGED bad
  <2>1. Sustained'
    BY <1>1, <1>5, <1>7 DEF Sustained
  <2>2. NextUsers(good)' = NextUsers(users)
    BY <1>1, <1>7 DEF NextUsers, Scaled
  <2>3. CASE NextUsers(users) <= search.most
    BY <1>1, <1>2, <1>3, <1>7, <2>1, <2>2, <2>3 DEF SearchInv
  <2>4. CASE ~(NextUsers(users) <= search.most)
    <3>1. stage' = "found" /\ search.most < NextUsers(users)
      BY <1>2, <1>3, <1>7, <2>4
    <3>2. QED
      BY <1>1, <1>2, <1>3, <1>7, <2>1, <2>2, <3>1 DEF SearchInv
  <2>5. QED
    BY <2>3, <2>4
<1>8. CASE /\ ~StepPassed(r)
           /\ bad' = users
           /\ stage' = IF Unresolved(good, users) THEN "refine" ELSE "found"
           /\ UNCHANGED <<users, good>>
  <2>1. Sustained' /\ Overloaded'
    BY <1>1, <1>2, <1>5, <1>8 DEF Sustained, Overloaded
  <2>2. Tolerance(good) \in Nat /\ Tolerance(good) >= 1
    BY <1>1, ToleranceIsPositive
  <2>3. CASE Unresolved(good, users)
    <3>1. stage' = "refine" /\ good > 0 /\ users - good > 1
      BY <1>1, <1>2, <1>8, <2>2, <2>3 DEF Unresolved
    <3>2. QED
      BY <1>1, <1>2, <1>8, <2>1, <3>1 DEF SearchInv
  <2>4. CASE ~Unresolved(good, users)
    <3>1. stage' = "found" /\ (good > 0 => users - good <= Tolerance(good)) /\ (good = 0 => users = search.start)
      BY <1>1, <1>2, <1>8, <2>2, <2>4 DEF Unresolved
    <3>2. Tolerance(good)' = Tolerance(good)
      BY <1>8 DEF Tolerance
    <3>3. QED
      BY <1>1, <1>2, <1>8, <2>1, <3>1, <3>2 DEF SearchInv
  <2>5. QED
    BY <2>3, <2>4
<1>9. QED
  BY <1>4, <1>7, <1>8

LEMMA RefineStepKeeps ==
  ASSUME SearchInv, RefineStep
  PROVE  SearchInv'
<1> DEFINE mid == (good + bad) \div 2
<1>1. /\ UNCHANGED <<search, users>> /\ search \in Searches /\ SearchKind(search) /\ users \in Int
      /\ 0 < good /\ good < bad /\ bad - good > 1 /\ Sustained /\ Overloaded /\ search.start <= good /\ good \in Nat /\ bad \in Nat
      /\ stage' = IF Unresolved(good', bad') THEN "refine" ELSE "found"
  BY AutofindAssumption DEF RefineStep, SearchInv
<1>2. mid \in Nat /\ good < mid /\ mid < bad
  BY <1>1, MiddleIsBetween
<1> HIDE DEF mid
<1>3. PICK r \in Measured(mid) : /\ good' = IF StepPassed(r) THEN mid ELSE good
                                /\ bad' = IF StepPassed(r) THEN bad ELSE mid
  BY DEF RefineStep, mid
<1>4. search.steady => (StepPassed(r) <=> mid <= search.limit)
  BY VerdictIsRight
<1>5. search.limit \in Nat /\ search.start \in Int
  BY <1>1 DEF SearchKind
<1>6. /\ search.start <= good' /\ good' \in Nat /\ bad' \in Nat /\ 0 < good' /\ good' < bad' /\ Sustained' /\ Overloaded'
  BY <1>1, <1>2, <1>3, <1>4, <1>5 DEF Sustained, Overloaded
<1>7. Tolerance(good') \in Nat /\ Tolerance(good') >= 1
  BY <1>6, ToleranceIsPositive
<1>8. CASE Unresolved(good', bad')
  <2>3. stage' = "refine" /\ bad' - good' > Tolerance(good')
    BY <1>1, <1>8 DEF Unresolved
  <2> DEFINE g == good'
             b == bad'
             d == Tolerance(good')
  <2>4. g \in Nat /\ b \in Nat /\ d \in Nat /\ d >= 1 /\ b - g > d
    BY <1>6, <1>7, <2>3
  <2> HIDE DEF g, b, d
  <2>5. b - g > 1
    BY <2>4
  <2>1. bad' - good' > 1 /\ stage' = "refine"
    BY <2>3, <2>5 DEF g, b
  <2>2. QED
    BY <1>1, <1>6, <2>1 DEF SearchInv
<1>9. CASE ~Unresolved(good', bad')
  <2>1. bad' - good' <= Tolerance(good') /\ stage' = "found"
    BY <1>1, <1>6, <1>7, <1>9 DEF Unresolved
  <2>2. Tolerance(good)' = Tolerance(good')
    BY DEF Tolerance
  <2>3. bad' > 0 /\ good' > 0 /\ bad' # 0 /\ good' # 0
    BY <1>6
  <2>4. stage' \notin {"idle", "raised", "ramp", "refine"}
    BY <2>1
  <2>5. QED
    BY <1>1, <1>6, <2>1, <2>2, <2>3, <2>4 DEF SearchInv
<1>10. QED
  BY <1>8, <1>9

-------------------------------------------------------------------------------
(* Options.                                                                   *)

\* What the checks let pass is honoured by the mode that is chosen.
LEMMA AcceptedIsHonoured ==
  ASSUME ~Refused
  PROVE  DOMAIN line \cap (LoadShape \cup {"thresholds"}) \subseteq Honours(Chosen)
<1> SUFFICES ASSUME NEW o \in DOMAIN line, o \in LoadShape \cup {"thresholds"}
             PROVE  o \in Honours(Chosen)
  OBVIOUS
<1>1. Given(o)
  BY DEF Given
<1>2. ~ModeConflict /\ (WebsocketTarget => ~WebsocketConflict) /\ ~LoadRefused
  BY DEF Refused, UrlRefused
<1>3. CASE WebsocketTarget
  <2>1. ~AnyOf(HttpOnly) /\ Chosen = "websocket"
    BY <1>2, <1>3 DEF WebsocketConflict, Chosen, AnyOf
  <2>2. o \notin HttpOnly
    BY <1>1, <2>1 DEF AnyOf
  <2>3. o \in {"duration", "thresholds"}
    BY <2>2 DEF LoadShape, HttpOnly
  <2>4. QED
    BY <2>1, <2>3 DEF Honours
<1>4. CASE ~WebsocketTarget /\ (Given("url_file") \/ Given("master"))
  <2>2. \/ Given("url_file") /\ ~Given("master") /\ ~Given("autofind")
        \/ ~Given("url_file") /\ Given("master") /\ ~Given("autofind")
    BY <1>2, <1>4 DEF ModeConflict, AnyOf
  <2>5. AnyOf({"url_file", "master", "autofind"})
    BY <1>4 DEF AnyOf
  <2>3. Given("url_file") => Chosen = "multi"
    BY <1>4, <2>2, <2>5 DEF Chosen
  <2>4. Given("master") => Chosen = "master"
    BY <1>4, <2>2, <2>5 DEF Chosen
  <2>1. Chosen \in {"multi", "master"}
    BY <1>4, <2>3, <2>4
  <2>6. QED
    BY <2>1 DEF Honours
<1>5. CASE ~WebsocketTarget /\ ~Given("url_file") /\ ~Given("master") /\ Given("autofind")
  <2>1. ~AnyOf(LoadShape \cup {"thresholds"})
    BY <1>2, <1>5 DEF ModeConflict
  <2>2. QED
    BY <1>1, <2>1 DEF AnyOf
<1>6. CASE ~WebsocketTarget /\ ~Given("url_file") /\ ~Given("master") /\ ~Given("autofind")
  <2>1. Chosen = IF Given("users") THEN "users" ELSE "benchmark"
    BY <1>6 DEF Chosen, AnyOf
  <2>2. Given("users") => o # "num_requests"
    BY <1>1, <1>2, <1>6 DEF LoadRefused
  <2>3. CASE Given("users")
    BY <2>1, <2>2, <2>3 DEF Honours, LoadShape
  <2>4. CASE ~Given("users")
    <3>1. o # "users"
      BY <1>1, <2>4
    <3>2. QED
      BY <2>1, <2>4, <3>1 DEF Honours, LoadShape
  <2>5. QED
    BY <2>3, <2>4
<1>7. QED
  BY <1>3, <1>4, <1>5, <1>6

LEMMA LoadIsHonouredStep ==
  ASSUME LoadIsHonoured, [Next]_vars
  PROVE  LoadIsHonoured'
<1>1. CASE Accept
  <2>1. ~Refused /\ mode' = Chosen /\ line' = line
    BY <1>1 DEF Accept
  <2>2. DOMAIN line' \cap (LoadShape \cup {"thresholds"}) \subseteq Honours(mode')
    BY <2>1, AcceptedIsHonoured
  <2>3. QED
    BY <2>2 DEF LoadIsHonoured
<1>2. CASE ~Accept
  <2>1. phase' \in {"running", "searching"} /\ caller' = "command" =>
          phase \in {"running", "searching"} /\ caller = "command" /\ mode' = mode /\ line' = line
    BY <1>2 DEF Next, Serve, Refuse, Call, EndRun, Search, EndSearch, End, vars
  <2>2. QED
    BY <2>1 DEF LoadIsHonoured
<1>3. QED
  BY <1>1, <1>2

-------------------------------------------------------------------------------
(* Exit codes.                                                                *)

Troubles == {"lost", "dead", "breach", "unexported", "unwritable", "unreadable", "regression", "differing"}
Loads == {"benchmark", "users", "websocket", "master", "multi"}

\* The exit code c tells what went wrong, in runs with the troubles F.
Tells(c, F) ==
  /\ c \in {0, 1, 2, 3}
  /\ c = 0 <=> UNION F = {}
  /\ c = 3 <=> \E t \in F : Regresses(t)
  /\ c = 2 <=> "breach" \in UNION F /\ ~\E t \in F : Regresses(t)

LEMMA HigherTellsBoth ==
  ASSUME NEW c, NEW d, NEW F, NEW G, Tells(c, F), Tells(d, G)
  PROVE  Tells(Higher(c, d), F \cup G)
<1> DEFINE h == Higher(c, d)
<1>1. c \in {0, 1, 2, 3} /\ d \in {0, 1, 2, 3}
  BY DEF Tells
<1>2. /\ h \in {0, 1, 2, 3} /\ (h = 0 <=> c = 0 /\ d = 0) /\ (h = 3 <=> c = 3 \/ d = 3)
      /\ (h = 2 <=> (c = 2 \/ d = 2) /\ c # 3 /\ d # 3)
  BY <1>1 DEF Higher
<1> HIDE DEF h
<1>3. UNION (F \cup G) = (UNION F) \cup (UNION G)
  OBVIOUS
<1>4. (\E t \in F \cup G : Regresses(t)) <=> (\E t \in F : Regresses(t)) \/ (\E t \in G : Regresses(t))
  OBVIOUS
<1>5. h = 0 <=> UNION (F \cup G) = {}
  BY <1>2, <1>3 DEF Tells
<1>6. h = 3 <=> \E t \in F \cup G : Regresses(t)
  BY <1>2, <1>4 DEF Tells
<1>7. h = 2 <=> "breach" \in UNION (F \cup G) /\ ~\E t \in F \cup G : Regresses(t)
  BY <1>2, <1>3, <1>4 DEF Tells
<1>8. QED
  BY <1>2, <1>5, <1>6, <1>7 DEF Tells, h

\* The verdict of the gates and of what else a run notices.
LEMMA GatesTell ==
  ASSUME NEW t \in SUBSET Troubles
  PROVE  /\ Gates(t) \in {0, 1, 2, 3}
         /\ Gates(t) = 0 <=> t \subseteq {"lost", "dead", "unexported"}
         /\ "breach" \in t => Gates(t) = 2
         /\ "breach" \notin t /\ t \cap {"unwritable", "unreadable", "differing"} # {} => Gates(t) = 1
         /\ "breach" \notin t /\ t \cap {"unwritable", "unreadable", "differing"} = {} /\ "regression" \in t => Gates(t) = 3
BY DEF Gates, BaselineGate, Troubles

\* A set of troubles is judged with what the mode counts.
LEMMA Judged ==
  ASSUME NEW t \in SUBSET Troubles, NEW f \in SUBSET t, NEW late \in BOOLEAN,
         t \cap {"breach", "unwritable", "unreadable", "differing", "regression"} \subseteq f,
         late => f # {},
         f \cap {"lost", "dead", "unexported"} # {} => late
  PROVE  LET c == IF late THEN AtLeastOne(Gates(t)) ELSE Gates(t)
         IN  Tells(c, {f})
<1> DEFINE c == IF late THEN AtLeastOne(Gates(t)) ELSE Gates(t)
           three == {"unwritable", "unreadable", "differing"}
<1>1. /\ Gates(t) \in {0, 1, 2, 3}
      /\ Gates(t) = 0 <=> t \subseteq {"lost", "dead", "unexported"}
      /\ "breach" \in t => Gates(t) = 2
      /\ "breach" \notin t /\ t \cap three # {} => Gates(t) = 1
      /\ "breach" \notin t /\ t \cap three = {} /\ "regression" \in t => Gates(t) = 3
  BY GatesTell
<1>2. c \in {0, 1, 2, 3} /\ (c = 0 <=> Gates(t) = 0 /\ ~late) /\ (Gates(t) # 0 => c = Gates(t))
      /\ (Gates(t) = 0 /\ late => c = 1)
  BY <1>1 DEF AtLeastOne
<1> HIDE DEF c
<1>3. c = 0 <=> f = {}
  <2>1. ASSUME f = {} PROVE Gates(t) = 0 /\ ~late
    <3>1. t \subseteq {"lost", "dead", "unexported"}
      BY <2>1 DEF Troubles
    <3>2. QED
      BY <1>1, <2>1, <3>1
  <2>2. ASSUME Gates(t) = 0, ~late PROVE f = {}
    BY <1>1, <2>2
  <2>3. QED
    BY <1>2, <2>1, <2>2
<1>4. c = 3 <=> Regresses(f)
  <2>1. Regresses(f) <=> Regresses(t)
    BY DEF Regresses
  <2>2. Regresses(t) <=> "breach" \notin t /\ t \cap three = {} /\ "regression" \in t
    BY DEF Regresses
  <2>3. Gates(t) = 3 <=> "breach" \notin t /\ t \cap three = {} /\ "regression" \in t
    <3>1. CASE "breach" \in t \/ t \cap three # {}
      BY <1>1, <3>1
    <3>2. CASE "breach" \notin t /\ t \cap three = {} /\ "regression" \notin t
      <4>1. t \subseteq {"lost", "dead", "unexported"}
        BY <3>2 DEF Troubles
      <4>2. QED
        BY <1>1, <3>2, <4>1
    <3>3. QED
      BY <1>1, <3>1, <3>2
  <2> HIDE DEF three
  <2>4. QED
    BY <1>1, <1>2, <2>1, <2>2, <2>3
<1>5. c = 2 <=> "breach" \in f
  <2>1. "breach" \in f <=> "breach" \in t
    OBVIOUS
  <2>2. Gates(t) = 2 <=> "breach" \in t
    <3>1. CASE "breach" \notin t /\ t \cap three = {} /\ "regression" \notin t
      <4>1. t \subseteq {"lost", "dead", "unexported"}
        BY <3>1 DEF Troubles
      <4>2. QED
        BY <1>1, <3>1, <4>1
    <3>2. QED
      BY <1>1, <3>1
  <2> HIDE DEF three
  <2>3. QED
    BY <1>1, <1>2, <2>1, <2>2
<1>6. "breach" \in f => ~Regresses(f)
  BY DEF Regresses
<1>7. UNION {f} = f
  OBVIOUS
<1>8. Tells(c, {f})
  <2> HIDE DEF three
  <2>1. (\E u \in {f} : Regresses(u)) <=> Regresses(f)
    OBVIOUS
  <2>2. QED
    BY <1>2, <1>3, <1>4, <1>5, <1>6, <1>7, <2>1 DEF Tells
<1>9. QED
  BY <1>8 DEF c

\* One run of each mode.
LEMMA RunTells ==
  ASSUME caller = "command", mode \in Loads, NEW t \in SUBSET Trouble
  PROVE  Tells(ExitOf(t), {Counts(t)})
<1>1. t \in SUBSET Troubles
  BY DEF Trouble, Troubles
<1>2. CASE mode \in {"benchmark", "users"}
  <2> DEFINE late == t \cap {"lost", "unexported"} # {}
             f == t \ {"dead"}
  <2>1. ExitOf(t) = IF late THEN AtLeastOne(Gates(t)) ELSE Gates(t)
    BY <1>2 DEF ExitOf, RunExit
  <2>2. Counts(t) = f
    BY <1>2 DEF Counts
  <2>3. f \in SUBSET t /\ late \in BOOLEAN /\ (late => f # {}) /\ (f \cap {"lost", "dead", "unexported"} # {} => late)
        /\ t \cap {"breach", "unwritable", "unreadable", "differing", "regression"} \subseteq f
    OBVIOUS
  <2> HIDE DEF late, f
  <2>4. QED
    BY <1>1, <2>1, <2>2, <2>3, Judged
<1>3. CASE mode \in {"websocket", "multi"}
  <2> DEFINE late == t \cap {"lost", "unexported", "dead"} # {}
  <2>1. RunExit(t) = IF t \cap {"lost", "unexported"} # {} \/ (mode = "websocket" /\ "dead" \in t)
                     THEN AtLeastOne(Gates(t)) ELSE Gates(t)
    BY DEF RunExit
  <2>2. AtLeastOne(AtLeastOne(Gates(t))) = AtLeastOne(Gates(t))
    BY <1>1, GatesTell DEF AtLeastOne
  <2>3. ExitOf(t) = IF late THEN AtLeastOne(Gates(t)) ELSE Gates(t)
    <3>1. CASE mode = "websocket"
      BY <2>1, <3>1 DEF ExitOf
    <3>2. CASE mode = "multi"
      BY <2>1, <2>2, <3>2 DEF ExitOf, UrlExit
    <3>3. QED
      BY <1>3, <3>1, <3>2
  <2>4. Counts(t) = t
    BY <1>3 DEF Counts
  <2>5. t \in SUBSET t /\ late \in BOOLEAN /\ (late => t # {}) /\ (t \cap {"lost", "dead", "unexported"} # {} => late)
        /\ t \cap {"breach", "unwritable", "unreadable", "differing", "regression"} \subseteq t
    OBVIOUS
  <2> HIDE DEF late
  <2>6. QED
    BY <1>1, <2>3, <2>4, <2>5, Judged
<1>4. CASE mode = "master" /\ "dead" \in t
  <2>1. ExitOf(t) = 1 /\ Counts(t) = {"dead"}
    BY <1>4 DEF ExitOf, MasterExit, Counts
  <2>2. QED
    BY <2>1 DEF Tells, Regresses
<1>5. CASE mode = "master" /\ "dead" \notin t
  <2> DEFINE late == "lost" \in t /\ ~Given("allow_partial")
             f == t \ (IF Given("allow_partial") THEN {"lost", "unexported"} ELSE {"unexported"})
  <2>1. ExitOf(t) = IF late THEN AtLeastOne(Gates(t)) ELSE Gates(t)
    BY <1>5 DEF ExitOf, MasterExit
  <2>2. Counts(t) = f
    BY <1>5 DEF Counts
  <2>3. f \in SUBSET t /\ late \in BOOLEAN /\ (late => f # {}) /\ (f \cap {"lost", "dead", "unexported"} # {} => late)
        /\ t \cap {"breach", "unwritable", "unreadable", "differing", "regression"} \subseteq f
    BY <1>5 DEF Given
  <2> HIDE DEF late, f
  <2>4. QED
    BY <1>1, <2>1, <2>2, <2>3, Judged
<1>6. QED
  BY <1>2, <1>3, <1>4, <1>5 DEF Loads

-------------------------------------------------------------------------------
(* The inductive invariant of a call.                                         *)

CallInv ==
  /\ phase \in {"parsing", "running", "searching", "ended"}
  /\ phase = "parsing" => mode = "none" /\ failed = {} /\ code = 0
  /\ phase = "running" => mode \in Loads
  /\ phase = "running" /\ caller = "command" =>
       /\ todo \in Nat \ {0}
       /\ mode # "multi" => todo = 1 /\ failed = {} /\ code = 0
  /\ phase \in {"running", "ended"} /\ caller = "command" /\ mode \in Loads =>
       Tells(code, failed)
  /\ phase = "searching" => mode = "autofind"
  /\ phase \in {"searching", "ended"} /\ mode = "autofind" =>
       stage # "idle" /\ search.start < search.most
  /\ phase = "ended" /\ mode = "autofind" /\ stage = "found" => (code = 0 <=> good > 0)
  /\ SearchInv

LEMMA NothingTells == Tells(0, {})
BY DEF Tells

LEMMA SearchInvStutters ==
  ASSUME SearchInv, UNCHANGED searchVars
  PROVE  SearchInv'
<1>1. /\ search' = search /\ stage' = stage /\ users' = users /\ good' = good /\ bad' = bad
  BY DEF searchVars
<1>2. NextUsers(good)' = NextUsers(good) /\ Tolerance(good)' = Tolerance(good) /\ Sustained' = Sustained /\ Overloaded' = Overloaded
  BY <1>1 DEF NextUsers, Scaled, Tolerance, Sustained, Overloaded
<1>3. QED
  BY <1>1, <1>2 DEF SearchInv

LEMMA CallInvInitially ==
  ASSUME Init
  PROVE  CallInv
BY DEF Init, CallInv, SearchInv

LEMMA AcceptKeeps ==
  ASSUME CallInv, Accept
  PROVE  CallInv'
<1>1. /\ phase = "parsing" /\ caller' = caller /\ mode' = Chosen /\ failed' = {} /\ code' = 0
      /\ todo' = IF Chosen = "multi" THEN Urls ELSE 1
      /\ phase' = IF Chosen = "autofind" THEN "searching" ELSE "running"
  BY DEF Accept, CallInv
<1>2. Chosen \in Loads \cup {"autofind"}
  <2>1. ~Refused
    BY DEF Accept
  <2>2. ~ModeConflict /\ (WebsocketTarget => ~WebsocketConflict)
    BY <2>1 DEF Refused, UrlRefused
  <2> DEFINE others == {"url_file", "master", "autofind"}
  <2>3. CASE WebsocketTarget
    <3>1. Chosen = "websocket"
      BY <2>3 DEF Chosen
    <3>2. QED
      BY <3>1 DEF Loads
  <2>4. CASE ~WebsocketTarget /\ AnyOf(others)
    <3>1. \/ Given("url_file") /\ ~Given("master") /\ ~Given("autofind")
          \/ ~Given("url_file") /\ Given("master") /\ ~Given("autofind")
          \/ ~Given("url_file") /\ ~Given("master") /\ Given("autofind")
      BY <2>2, <2>4 DEF ModeConflict, AnyOf
    <3>2. Chosen \in {"multi", "master", "autofind"}
      <4>1. CASE Given("url_file") /\ ~Given("master") /\ ~Given("autofind")
        BY <2>4, <4>1 DEF Chosen
      <4>2. CASE ~Given("url_file") /\ Given("master") /\ ~Given("autofind")
        BY <2>4, <4>2 DEF Chosen
      <4>3. CASE ~Given("url_file") /\ ~Given("master") /\ Given("autofind")
        BY <2>4, <4>3 DEF Chosen
      <4>4. QED
        BY <3>1, <4>1, <4>2, <4>3
    <3>3. QED
      BY <3>2 DEF Loads
  <2>5. CASE ~WebsocketTarget /\ ~AnyOf(others)
    <3>1. ~Given("url_file") /\ ~Given("master") /\ ~Given("autofind")
      BY <2>5 DEF AnyOf
    <3>2. Chosen \in {"users", "benchmark"}
      BY <2>5, <3>1 DEF Chosen
    <3>3. QED
      BY <3>2 DEF Loads
  <2>6. QED
    BY <2>3, <2>4, <2>5
<1>3. CASE Chosen = "autofind"
  <2>1. PICK s \in Sought : BeginSearch(s)
    BY <1>3 DEF Accept
  <2>2. s \in Searches /\ s.start < s.most
    BY <2>1 DEF Sought
  <2>3. SearchInv' /\ search' = s /\ stage' # "idle"
    BY <2>1, <2>2, BeginSearchKeeps DEF BeginSearch
  <2>4. "autofind" \notin Loads
    BY DEF Loads
  <2>5. QED
    BY <1>1, <1>3, <2>2, <2>3, <2>4 DEF CallInv
<1>4. CASE Chosen # "autofind"
  <2>1. SearchInv'
    BY <1>4, SearchInvStutters DEF Accept, CallInv
  <2>2. Urls \in Nat \ {0}
    BY CommandAssumption
  <2>3. todo' \in Nat \ {0} /\ (mode' # "multi" => todo' = 1) /\ mode' \in Loads /\ phase' = "running"
    BY <1>1, <1>2, <1>4, <2>2
  <2>4. mode' # "autofind"
    BY <1>1, <1>4
  <2>5. Tells(code', failed')
    BY <1>1, NothingTells
  <2>6. QED
    BY <1>1, <2>1, <2>3, <2>4, <2>5 DEF CallInv, Tells
<1>5. QED
  BY <1>3, <1>4

LEMMA EndRunKeeps ==
  ASSUME CallInv, EndRun
  PROVE  CallInv'
<1>1. /\ phase = "running" /\ todo > 0 /\ UNCHANGED <<caller, line, mode, searchVars>>
      /\ todo' = todo - 1 /\ phase' = IF todo = 1 THEN "ended" ELSE "running"
  BY DEF EndRun
<1>2. PICK t \in SUBSET Trouble : failed' = failed \cup {Counts(t)} /\ code' = Higher(code, ExitOf(t))
  BY DEF EndRun
<1>3. SearchInv' /\ stage' = stage
  BY <1>1, SearchInvStutters DEF CallInv, searchVars
<1>4. CASE caller = "command"
  <2>1. mode \in Loads /\ todo \in Nat \ {0} /\ mode # "autofind" /\ Tells(code, failed)
        /\ (mode # "multi" => todo = 1 /\ failed = {} /\ code = 0)
    BY <1>1, <1>4 DEF CallInv, Loads
  <2>2. Tells(ExitOf(t), {Counts(t)})
    BY <1>4, <2>1, RunTells
  <2>3. Tells(code', failed')
    BY <1>2, <2>1, <2>2, HigherTellsBoth
  <2>5. phase' = "running" => todo' \in Nat \ {0} /\ mode = "multi"
    BY <1>1, <2>1
  <2>6. phase' \in {"running", "ended"} /\ mode' = mode /\ caller' = caller
    BY <1>1
  <2>7. QED
    BY <1>3, <1>4, <2>1, <2>3, <2>5, <2>6 DEF CallInv
<1>5. CASE caller # "command"
  <2>1. /\ phase' \in {"running", "ended"} /\ mode' = mode /\ caller' = caller /\ caller' # "command"
        /\ mode \in Loads /\ mode # "autofind"
    BY <1>1, <1>5 DEF CallInv, Loads
  <2>2. QED
    BY <1>3, <1>5, <2>1 DEF CallInv
<1>6. QED
  BY <1>4, <1>5

LEMMA CallInvIsKept ==
  ASSUME CallInv, [Next]_vars
  PROVE  CallInv'
<1>1. CASE Serve \/ Refuse
  <2>1. SearchInv'
    BY <1>1, SearchInvStutters DEF CallInv, Serve, Refuse
  <2>2. phase' = "ended" /\ mode' \in {"worker", "refused"}
    BY <1>1 DEF Serve, Refuse, End
  <2>3. QED
    BY <2>1, <2>2 DEF CallInv, Loads
<1>2. CASE Accept
  BY <1>2, AcceptKeeps
<1>3. CASE Call
  <2>1. SearchInv'
    BY <1>3, SearchInvStutters DEF CallInv, Call
  <2>2. /\ phase' \in {"ended", "running"} /\ caller' # "command"
        /\ mode' \in {"users", "benchmark", "refused"} /\ (phase' = "running" => mode' \in Loads)
    BY <1>3 DEF Call, End, Loads
  <2>3. QED
    BY <2>1, <2>2 DEF CallInv
<1>4. CASE EndRun
  BY <1>4, EndRunKeeps
<1>5. CASE Search
  <2>1. SearchInv'
    BY <1>5, RampStepKeeps, RefineStepKeeps DEF CallInv, Search
  <2>2. /\ phase = "searching" /\ UNCHANGED <<caller, phase, mode, failed, code>> /\ search' = search
        /\ stage' \in {"ramp", "refine", "found"}
    BY <1>5 DEF Search, RampStep, RefineStep
  <2>3. QED
    BY <2>1, <2>2 DEF CallInv
<1>6. CASE EndSearch
  <2>1. SearchInv' /\ search' = search /\ stage' = stage /\ good' = good
    BY <1>6, SearchInvStutters DEF CallInv, EndSearch, searchVars
  <2>2. /\ phase = "searching" /\ phase' = "ended" /\ UNCHANGED <<caller, mode>> /\ stage \in {"found", "raised"}
        /\ (stage = "found" => (code' = 0 <=> good > 0)) /\ mode' = "autofind"
    BY <1>6 DEF EndSearch, End, CallInv
  <2>3. QED
    BY <2>1, <2>2 DEF CallInv, Loads
<1>7. CASE UNCHANGED vars
  <2>1. SearchInv'
    BY <1>7, SearchInvStutters DEF CallInv, vars
  <2>2. UNCHANGED <<caller, phase, mode, todo, failed, code, search, stage, good>>
    BY <1>7 DEF vars, searchVars
  <2>3. QED
    BY <2>1, <2>2 DEF CallInv
<1>8. QED
  BY <1>1, <1>2, <1>3, <1>4, <1>5, <1>6, <1>7 DEF Next

LEMMA CallInvAlways == Spec => []CallInv
<1>1. Init => CallInv
  BY CallInvInitially
<1>2. CallInv /\ [Next]_vars => CallInv'
  BY CallInvIsKept
<1>3. QED
  BY <1>1, <1>2, PTL DEF Spec

LEMMA CallInvTells ==
  ASSUME CallInv
  PROVE  ExitTellsTheWorst
<1> SUFFICES ASSUME phase = "ended", caller = "command" PROVE ExitTellsTheWorst
  BY DEF ExitTellsTheWorst
<1>1. CASE mode \in Loads
  <2>1. Tells(code, failed)
    BY <1>1 DEF CallInv
  <2>2. mode \in {"benchmark", "users", "websocket", "master", "multi"} /\ mode # "autofind"
    BY <1>1 DEF Loads
  <2>3. QED
    BY <2>1, <2>2 DEF ExitTellsTheWorst, Tells
<1>2. CASE mode = "autofind"
  <2> SUFFICES ASSUME search.steady, stage = "found" PROVE code = 0 <=> search.start <= search.limit
    BY <1>2 DEF ExitTellsTheWorst
  <2>1. SearchInv /\ search \in Searches /\ search.start < search.most /\ (code = 0 <=> good > 0)
    BY <1>2 DEF CallInv, SearchInv
  <2>2. search.start \in Int /\ search.most \in Nat /\ search.limit \in Nat /\ good \in Nat /\ bad \in Nat
    BY <2>1, AutofindAssumption DEF SearchKind, SearchInv
  <2>3. search.start <= search.most
    BY <2>1, <2>2
  <2>4. /\ good > 0 => search.start <= good
        /\ good <= search.limit
        /\ bad > 0 => search.limit < bad
        /\ bad > 0 /\ good = 0 => bad = search.start
        /\ bad = 0 => good > 0
    BY <2>1, <2>3 DEF SearchInv, Sustained, Overloaded
  <2>5. good > 0 <=> search.start <= search.limit
    BY <2>2, <2>4
  <2>6. QED
    BY <2>1, <2>5
<1>3. CASE mode \notin Loads /\ mode # "autofind"
  BY <1>3 DEF ExitTellsTheWorst, Loads
<1>4. QED
  BY <1>1, <1>2, <1>3

\* No line that the checks accept loses an option of the load, or a threshold, to the
\* mode it runs in: the checks of main.py and the order of its modes fit together.
THEOREM LoadIsAlwaysHonoured == Spec => []LoadIsHonoured
<1>1. Init => LoadIsHonoured
  BY DEF Init, LoadIsHonoured
<1>2. LoadIsHonoured /\ [Next]_vars => LoadIsHonoured'
  BY LoadIsHonouredStep
<1>3. QED
  BY <1>1, <1>2, PTL DEF Spec

\* Whatever goes wrong in whichever runs, for any number of URLs, the exit code is 0
\* exactly when nothing did, 3 when a run regressed, 2 when one breached a threshold and
\* none regressed, and 1 otherwise; a search exits 0 exactly when
\* the target sustains the number of users it starts with.
THEOREM ExitAlwaysTells == Spec => []ExitTellsTheWorst
<1>1. CallInv => ExitTellsTheWorst
  BY CallInvTells
<1>2. QED
  BY <1>1, CallInvAlways, PTL

\* The number of users that a search reports is one that the target sustains, and the
\* highest up to a tenth of it, for every start, multiplier, maximum and target.
THEOREM CapacityIsAlwaysFound == Spec => []CapacityIsFound
<1>1. CallInv => CapacityIsFound
  BY SearchInvImplies DEF CallInv
<1>2. QED
  BY <1>1, CallInvAlways, PTL

===============================================================================
