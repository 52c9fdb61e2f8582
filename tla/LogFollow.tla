----------------------------- MODULE LogFollow ------------------------------
(***************************************************************************)
(* Following a log (cli/logs/follow.go): the backlog the logs command      *)
(* prints first, then polls that overlap, with a memory of what has been   *)
(* printed.  The client's token handling (cli/logs/client.go) decides      *)
(* whether a poll ends the command.  Lines arrive late and while polls run. *)
(* Rows that agree in time, labels and text are one line to the follower.  *)
(* A poll may come at any time: the clock below is coarser than intervals. *)
(***************************************************************************)
EXTENDS LogQueryAPI

CONSTANTS
    BacklogSizes,    \* values of --limit; -1 asks for every line
    FollowOverlap, followEndSlack,
    followMinInterval, followBackoffStep, followMaxInterval, followErrorInterval,
    ClockSkew,       \* how far a collector's clock may run ahead
    MaxTime,         \* bound: the clock
    MaxFailures,     \* bound: failed requests
    MaxTokens        \* bound: tokens issued

ASSUME FollowAssumption ==
    /\ \A e, f \in Entries : Key(e) = Key(f) => e = f
    /\ MaxLimit \in Nat \ {0}
    /\ BacklogSizes \subseteq Nat \cup {-1}
    /\ FollowOverlap \in Nat /\ followEndSlack \in Nat \ {0} /\ ClockSkew \in Nat
    /\ followMinInterval \in Nat /\ followBackoffStep \in Nat
    /\ followMaxInterval \in Nat /\ followErrorInterval \in Nat
    /\ MaxTime \in Nat \ {0} /\ MaxFailures \in Nat /\ MaxTokens \in Nat \ {0}

VARIABLES
    now,
    phase,        \* "backlog", "start", "poll", or how the command ended
    cursor, followSeen, floor,               \* the Follower: followSeen is its seen
    since, interval, failing, skipOverlap,   \* locals of Run
    printed,      \* the lines printed
    count,        \* how often a line was printed
    timely,       \* lines that appeared in reach of the next poll
    skipped,      \* has a poll left the overlap out?
    cached,       \* the client's token, 0 when it has none
    offered,      \* the token the source hands out
    accepted,     \* the oldest token the API accepts
    failures

followerVars == <<cursor, followSeen, floor>>
runVars == <<since, interval, failing, skipOverlap>>
outVars == <<printed, count>>
tokenVars == <<offered, accepted>>
followVars == <<now, store, phase, followerVars, runVars, outVars, timely, skipped,
                cached, tokenVars, failures>>

Ended == {"cancelled", "unauthorized", "refused", "denied", "failed"}

FollowTypeOK ==
    /\ now \in 1..MaxTime
    /\ store \subseteq Entries
    /\ phase \in {"backlog", "start", "poll"} \cup Ended
    /\ cursor \in Nat /\ floor \in Nat
    /\ followSeen \subseteq printed
    /\ since \in Int
    /\ interval \in Nat
    /\ failing \in BOOLEAN /\ skipOverlap \in BOOLEAN /\ skipped \in BOOLEAN
    /\ printed \subseteq store /\ timely \subseteq store
    /\ count \in Nat
    /\ cached \in 0..MaxTokens
    /\ offered \in 1..MaxTokens /\ accepted \in 1..MaxTokens
    /\ failures \in 0..MaxFailures

FollowInit ==
    /\ now = 1
    /\ store = {}
    /\ phase = "backlog"
    /\ cursor = 0 /\ followSeen = {} /\ floor = 0
    /\ since = 0 /\ interval = 0 /\ failing = FALSE /\ skipOverlap = FALSE
    /\ printed = {} /\ count = 0
    /\ timely = {} /\ skipped = FALSE
    /\ cached = 0 /\ offered = 1 /\ accepted = 1
    /\ failures = 0

-----------------------------------------------------------------------------
(* The client: get and bearer.                                             *)

\* A bug: a rejected token is not replaced.
AuthorizeOnce ==
    \E token \in {cached, offered} \ {0} : cached' = token

\* The cached token is used until it is too old (tokenTTL) or refused.
Authorize ==
    \E token \in {cached, offered} \ {0} :
        cached' = IF token < accepted THEN offered ELSE token

Authorized == Authorize /\ cached' >= accepted

Unauthorized == Authorize /\ cached' < accepted

-----------------------------------------------------------------------------
(* The follower.                                                           *)

Admitted(lines) == {e \in lines : e.time >= floor /\ e \notin followSeen}

\* The newest time among the cursor and the lines, which a set of one holds.
Newest(lines) ==
    {t \in {cursor} \cup {e.time : e \in lines} :
        cursor <= t /\ \A e \in lines : e.time <= t}

\* A bug: keys are kept for less than the overlap.
RememberedBriefly(lines, newest) == {e \in followSeen \cup lines : e.time >= newest}

\* Keys older than a poll can return are forgotten.
Remembered(lines, newest) ==
    {e \in followSeen \cup lines : e.time >= newest - (FollowOverlap + Second)}

admit(lines) ==
    /\ cursor' \in Newest(Admitted(lines))
    /\ followSeen' = Remembered(Admitted(lines), cursor')

\* A bug: polls do not overlap.
PollStartAtCursor == IF cursor > 0 THEN cursor ELSE since

PollStart ==
    IF cursor > 0 THEN IF skipOverlap THEN cursor ELSE cursor - FollowOverlap
                  ELSE since

PollEnd == now + followEndSlack

\* What Tail or All returns up to end, the time when the command began: it
\* is fixed before the requests are sent, which may take any time.
BacklogLines(n) ==
    UNION {IF n < 0 THEN {projectRange(0, end)}
           ELSE Cuts(projectRange(0, end), n, "backward") : end \in 1..now}

\* Before it follows, the command prints the backlog, every line passed to
\* Backlog, oldest first.
Backlog(n) ==
    /\ phase = "backlog"
    /\ Authorized
    /\ \E lines \in BacklogLines(n) :
           /\ admit(lines)
           /\ floor' = cursor'
           /\ printed' = printed \cup lines
           /\ count' = count + Cardinality(lines)
    /\ phase' = "start"
    /\ UNCHANGED <<now, store, runVars, timely, skipped, tokenVars, failures>>

\* Any error before following ends the command.
BacklogFails ==
    /\ phase = "backlog"
    /\ failures < MaxFailures
    /\ failures' = failures + 1
    /\ phase' = "failed"
    /\ UNCHANGED <<now, store, followerVars, runVars, outVars, timely, skipped, cached, tokenVars>>

\* Run fixes where the first poll starts.
Run ==
    /\ phase = "start"
    /\ phase' = "poll"
    /\ since' = now - FollowOverlap
    /\ timely' = LET from == IF cursor > 0 THEN cursor - FollowOverlap ELSE now - FollowOverlap
                 IN  {e \in store \ printed : e.time >= from /\ e.time >= floor}
    /\ UNCHANGED <<now, store, followerVars, interval, failing, skipOverlap, outVars,
                   skipped, cached, tokenVars, failures>>

\* A bug: a full page of printed lines is asked for again.
SkipOverlapNever(page) == FALSE

\* A full page of printed lines: the overlap alone exceeds a page.
SkipOverlap(page) == Cardinality(page) >= MaxLimit /\ Admitted(page) = {}

NextInterval(page) ==
    IF Cardinality(page) >= MaxLimit THEN 0
    ELSE IF Admitted(page) # {} THEN followMinInterval
    ELSE Min({Max({interval, followMinInterval}) + followBackoffStep, followMaxInterval})

Poll ==
    /\ phase = "poll"
    /\ Authorized
    /\ Accepted(PollStart, PollEnd)
    /\ \E page \in QueryRange(PollStart, PollEnd, MaxLimit, "forward") :
           /\ admit(page)
           /\ printed' = printed \cup Admitted(page)
           /\ count' = count + Cardinality(Admitted(page))
           /\ skipOverlap' = SkipOverlap(page)
           /\ skipped' = (skipped \/ SkipOverlap(page))
           /\ interval' = NextInterval(page)
    /\ failing' = FALSE
    /\ UNCHANGED <<now, store, phase, floor, since, timely, tokenVars, failures>>

\* A failure retrying may fix: no answer, a server error, no credentials.
PollFails ==
    /\ phase = "poll"
    /\ failures < MaxFailures
    /\ failures' = failures + 1
    /\ cached' \in {cached, offered}
    /\ failing' = TRUE
    /\ interval' = followErrorInterval
    /\ UNCHANGED <<now, store, phase, followerVars, since, skipOverlap, outVars, timely,
                   skipped, tokenVars>>

\* An answer that is Permanent ends the command.
End(how) ==
    /\ phase \in {"backlog", "start", "poll"}
    /\ phase' = how
    /\ UNCHANGED <<now, store, followerVars, runVars, outVars, timely, skipped, tokenVars, failures>>

SignedOut == phase # "start" /\ Unauthorized /\ End("unauthorized")

\* The API does not serve the query, the caller or the project, or finds the
\* window empty.
Denied ==
    /\ phase # "start"
    /\ Authorized
    /\ End(IF Accepted(PollStart, PollEnd) THEN "denied" ELSE "refused")

Cancel == End("cancelled") /\ cached' = cached

-----------------------------------------------------------------------------
(* Everyone else, for as long as the command runs.                         *)

Tick ==
    /\ phase \notin Ended
    /\ now < MaxTime
    /\ now' = now + 1
    /\ UNCHANGED <<store, phase, followerVars, runVars, outVars, timely, skipped, cached,
                   tokenVars, failures>>

Appear(e) ==
    /\ phase \notin Ended
    /\ e.time <= now + ClockSkew
    /\ Ingest(e)
    /\ timely' = IF phase = "poll" /\ e.time >= floor
                    /\ e.time >= (IF cursor > 0 THEN cursor - FollowOverlap ELSE since)
                 THEN timely \cup {e} ELSE timely
    /\ UNCHANGED <<now, phase, followerVars, runVars, outVars, skipped, cached, tokenVars, failures>>

Renew ==
    /\ phase \notin Ended
    /\ offered < MaxTokens
    /\ offered' = offered + 1
    /\ UNCHANGED <<now, store, phase, followerVars, runVars, outVars, timely, skipped, cached,
                   accepted, failures>>

Expire ==
    /\ phase \notin Ended
    /\ accepted < MaxTokens
    /\ accepted' = accepted + 1
    /\ UNCHANGED <<now, store, phase, followerVars, runVars, outVars, timely, skipped, cached,
                   offered, failures>>

FollowNext ==
    \/ \E n \in BacklogSizes : Backlog(n)
    \/ BacklogFails
    \/ Run
    \/ Poll
    \/ PollFails
    \/ SignedOut
    \/ Denied
    \/ Cancel
    \/ Tick
    \/ \E e \in Entries : Appear(e)
    \/ Renew
    \/ Expire

FollowSpec == FollowInit /\ [][FollowNext]_followVars

\* Time passes, and requests are answered or time out (requestTimeout); the
\* user need not cancel, and the API need not deny anything.
FairFollowSpec ==
    /\ FollowSpec
    /\ WF_followVars(Tick)
    /\ WF_followVars(Run)
    /\ WF_followVars(Poll)
    /\ WF_followVars(SignedOut)

-----------------------------------------------------------------------------
\* No line is printed twice, neither by the backlog and the follower nor by
\* two polls: what the follower forgets is out of reach of every later poll
\* (admit, follow.go:125-151).
PrintedOnce == count = Cardinality(printed)

\* Following prints nothing older than the newest line of the backlog
\* (Backlog, follow.go:45-51), and nothing older than the overlap allows.
NothingOlder ==
    [][\A e \in printed' \ printed :
          phase = "poll" => e.time >= floor /\ e.time >= cursor - FollowOverlap]_followVars

\* A line that appeared in reach of the next poll stays in reach until it is
\* printed, however late it came and however full the pages are, as long as
\* no poll has left the overlap out (follow.go:72-78, 109-112).
TimelyStaysInReach ==
    phase = "poll" /\ ~skipped => \A e \in timely \ printed : e.time >= PollStart

\* The follower never asks for an empty window, which the API refuses for
\* good: its cursor stays before the end of the next poll (follow.go:79-85).
NeverRefused == phase # "refused"

\* Only a token source that is behind ends the command with a 401: a cached
\* token that expired does not (get, client.go:234-237).
SignedOutOnlyWhenStale ==
    [][phase' = "unauthorized" /\ phase # phase' => offered < accepted]_followVars

\* A follower that keeps running prints every line that appeared in its reach,
\* unless it left the overlap out.
TimelyArePrinted == <>[](phase \in Ended \/ skipped \/ timely \subseteq printed)

\* A follower never polls without a pause for good: "step past it instead of
\* refetching it forever" (follow.go:110-112).
NotForeverBusy == []<>(interval # 0 \/ phase # "poll")
=============================================================================
