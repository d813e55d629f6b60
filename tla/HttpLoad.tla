------------------------------ MODULE HttpLoad ------------------------------
(***************************************************************************)
(* http_1m: the load generator writes HTTP requests on plain connections   *)
(* and takes what one Read returns for the answer.  An answer may come in  *)
(* two parts; then a post counts the first part as a failure and also as a *)
(* success, and the next post on the connection reads the second.          *)
(***************************************************************************)
EXTENDS LoadReport

CONSTANTS ClientNum, GoroutineNum,      \* the flags -c and -g
          MaxPosts      \* bound: calls of post

ASSUME FlagsAreNumbers == GoroutineNum \in Nat \ {0} /\ ClientNum \in Nat
ASSUME PostsAreBounded == MaxPosts \in Nat

VARIABLES poster,       \* per goroutine where loop and post stand
          split,        \* whether part of a connection's next answer is read
          posts, crashed

httpVars == <<poster, split, posts, crashed>>
vars == <<serverVars, reportVars, httpVars>>

Loops == 1..GoroutineNum
ConnNum == ClientNum \div GoroutineNum
AddrAt(g) == (g - 1) % NumAddrs
ConnAt(g) == (g - 1) * ConnNum + poster[g].i
hello == CHOOSE b \in Bodies : TRUE

ASSUME LoopsHaveConns ==
    IsFiniteSet(Conns) /\ 1..(ConnNum * GoroutineNum) \subseteq Conns /\ Bodies # {}

HttpTypes ==
    /\ ServerTypeOK /\ ReportTypeOK
    /\ poster \in [Loops -> [at : {"dial", "write", "read", "count"}, i : 1..(ConnNum + 1)]]
    /\ split \in [Conns -> BOOLEAN] /\ posts \in 0..MaxPosts /\ crashed \in BOOLEAN
    /\ \A c \in Conns : split[c] => toClient[c] # <<>>

(* Types; a loop never goes past the connections that are its own.         *)
TypeOK == HttpTypes /\ (ConnNum > 0 => \A g \in Loops : poster[g].i =< ConnNum)

Init ==
    /\ protocol = "http" /\ ServerInit /\ ReportInit
    /\ poster = [g \in Loops |-> [at |-> "dial", i |-> 1]]
    /\ split = [c \in Conns |-> FALSE] /\ posts = 0 /\ crashed = FALSE

PosterAt(g, at) == ~crashed /\ poster[g].at = at

-----------------------------------------------------------------------------
(* loop: net.Dial until it succeeds, for each connection; a loop without   *)
(* any does nothing.                                                       *)
Dial(g) ==
    /\ PosterAt(g, "dial") /\ ConnNum > 0 /\ AddrAt(g) \in listening
    /\ link' = [link EXCEPT ![ConnAt(g)] = "up"]
    /\ poster' = [poster EXCEPT ![g] = IF @.i = ConnNum THEN [at |-> "write", i |-> 1]
                                       ELSE [at |-> "dial", i |-> @.i + 1]]
    /\ UNCHANGED <<protocol, listening, toServer, toClient, handler, counters, reportVars,
                   split, posts, crashed>>

(* Mutant: the round over the connections is one too long. *)
NextConnOrPast(g) == poster' = [poster EXCEPT ![g] = [at |-> "write", i |-> (@.i % (ConnNum + 1)) + 1]]

(* loop: the connections of a loop are posted to in turn, round and round. *)
NextConn(g) == poster' = [poster EXCEPT ![g] = [at |-> "write", i |-> (@.i % ConnNum) + 1]]

(* post: conn.Write. *)
PostWrite(g) ==
    /\ PosterAt(g, "write") /\ posts < MaxPosts /\ link[ConnAt(g)] = "up"
    /\ toServer' = [toServer EXCEPT ![ConnAt(g)] = Append(@, hello)]
    /\ poster' = [poster EXCEPT ![g].at = "read"] /\ posts' = posts + 1
    /\ UNCHANGED <<protocol, listening, link, toClient, handler, counters, reportVars,
                   split, crashed>>

(* post: conn.Write fails, which is a failure. *)
PostWriteFails(g) ==
    /\ PosterAt(g, "write") /\ posts < MaxPosts /\ link[ConnAt(g)] = "broken"
    /\ Fail /\ NextConn(g) /\ posts' = posts + 1
    /\ UNCHANGED <<serverVars, split, crashed>>

(* What a Read takes from c: k whole answers and perhaps part of the next. *)
Takes(c, k, part) ==
    /\ k + (IF part THEN 1 ELSE 0) =< Len(toClient[c]) /\ (k = 0 => part /\ ~split[c])
    /\ toClient' = [toClient EXCEPT ![c] = SubSeq(@, k + 1, Len(@))]
    /\ split' = [split EXCEPT ![c] = part]
    /\ UNCHANGED <<protocol, listening, link, toServer, handler, counters>>

Reads(g) == PosterAt(g, "read") /\ poster' = [poster EXCEPT ![g].at = "count"]

(* Mutant: what Read returns is not looked at. *)
AnyRead(g, k, part) ==
    /\ Reads(g) /\ Takes(ConnAt(g), k, part)
    /\ UNCHANGED <<reportVars, posts, crashed>>

(* Mutant: io.ReadFull waits until the buffer is full. *)
ReadFull(g, k, part) ==
    /\ k > 1 /\ Reads(g) /\ Takes(ConnAt(g), k, part)
    /\ UNCHANGED <<reportVars, posts, crashed>>

(* post: conn.Read; only at the end of an answer are the last five bytes   *)
(* its body.                                                               *)
PostRead(g, k, part) ==
    /\ Reads(g) /\ Takes(ConnAt(g), k, part)
    /\ IF part \/ toClient[ConnAt(g)][k] # hello THEN Fail ELSE UNCHANGED reportVars
    /\ UNCHANGED <<posts, crashed>>

(* post: conn.Read fails, and resData[n-5:n] is not looked at. *)
PostReadFails(g) ==
    /\ Reads(g) /\ link[ConnAt(g)] = "broken" /\ Fail
    /\ UNCHANGED <<serverVars, split, posts, crashed>>

(* post: success is counted whatever Read has returned. *)
PostSucceeds(g) ==
    /\ PosterAt(g, "count") /\ Succeed /\ NextConn(g)
    /\ UNCHANGED <<serverVars, split, posts, crashed>>

(* post: fewer than five bytes arrive, resData[n-5:n] panics. *)
PostPanics(g) ==
    /\ PosterAt(g, "read") /\ toClient[ConnAt(g)] # <<>> /\ crashed' = TRUE
    /\ UNCHANGED <<serverVars, reportVars, poster, split, posts>>

Report ==
    /\ ~crashed /\ (reporting = "ticker" => success + failed > 0)
    /\ (SwapSuccess \/ SwapFailed \/ AddTotals)
    /\ UNCHANGED <<serverVars, httpVars>>

Post(g) ==
    \/ PostWrite(g) \/ PostWriteFails(g) \/ PostReadFails(g) \/ PostSucceeds(g)
    \/ \E k \in 0..Len(toClient[ConnAt(g)]), part \in BOOLEAN : PostRead(g, k, part)

(* The connection is gone, and with it the part of an answer. *)
Drop(c) == Break(c) /\ split' = [split EXCEPT ![c] = FALSE] /\ UNCHANGED <<poster, posts, crashed>>

Next ==
    \/ Report
    \/ \E g \in Loops : Dial(g) \/ Post(g) \/ PostPanics(g)
    \/ ServerNext /\ UNCHANGED <<reportVars, httpVars>>
    \/ (\E c \in Conns : Drop(c)) /\ UNCHANGED reportVars

Spec == Init /\ [][Next]_vars
FairSpec == Spec /\ ServerFairness /\ \A g \in Loops : WF_vars(Dial(g) \/ Post(g))

-----------------------------------------------------------------------------
(* The client's report and the server's differ by no more than failures    *)
(* and posts under way explain, though a success is counted for every      *)
(* Read: a Read that was none is among the failures too, and an answer     *)
(* that was split is not counted twice.                                    *)
CountsAgree ==
    /\ Successes =< Served + Failures
    /\ (\A c \in Conns : link[c] # "broken") =>
          Served =< Successes + Cardinality({g \in Loops : poster[g].at \in {"read", "count"}})

(* A post returns, unless it panics. *)
PostsReturn == \A g \in Loops : poster[g].at = "read" ~> poster[g].at # "read" \/ crashed
=============================================================================
