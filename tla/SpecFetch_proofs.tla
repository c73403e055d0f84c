---- MODULE SpecFetch_proofs ----
(***************************************************************************)
(* What a fetch returns was served for its URL, and how a cached row may   *)
(* disagree with its file, for any number of fetchers and refreshes, any   *)
(* batches and faults, and any changes of documents and of redirects.      *)
(***************************************************************************)
EXTENDS SpecFetch, TLAPS

Call == [url : Urls, mode : Modes, place : Places \cup {Absent}, data : Contents \cup {Absent}, final : Urls]
Downloads == [data : Contents, final : Urls]

Steps ==
    {"idle", "load", "read", "touch", "get", "store", "download", "write", "check", "register",
     "note", "record"}

Types ==
    /\ final \in Redirects /\ origin \in [Origins -> Contents]
    /\ served \in [Urls -> SUBSET Contents] /\ since \in [Fetchers -> SUBSET Contents]
    /\ file \in [Paths -> Contents \cup {Absent}]
    /\ pc \in [Processes -> Steps]
    /\ fetch \in [Fetchers -> Call]
    /\ reply = [c \in Fetchers |-> reply[c]]
    /\ batch \in [Refreshers -> Seq(Refs)] /\ got \in [Refreshers -> Seq(Downloads)]
    /\ at \in [Refreshers -> Nat]
    /\ turns \in BOOLEAN

\* A row holds what was served for its URL, be it its own or that of a file.
RowsWereServed ==
    \A u \in DOMAIN rows :
        u \in Urls /\ rows[u].data \in served[u] /\ rows[u].place \in Places
\* So does a call that has loaded or downloaded a document.
CallsWereServed ==
    \A c \in Fetchers :
        /\ pc[c] \in {"read", "touch", "store"} => fetch[c].data \in served[fetch[c].url]
        /\ pc[c] = "store" => fetch[c].data \in Valid \cap served[fetch[c].final]

\* A refresh has downloaded the references before the one it is at, and all
\* of them once it registers.
Downloaded(r) ==
    \A i \in DOMAIN got[r] : got[r][i].data \in served[batch[r][i]] \cap served[got[r][i].final]
Progress(r) ==
    /\ Len(got[r]) <= Len(batch[r])
    /\ pc[r] = "download" => at[r] = Len(got[r]) + 1 /\ at[r] <= Len(batch[r])
    /\ pc[r] = "write" => at[r] = Len(got[r]) /\ at[r] # 0
    /\ pc[r] \in {"check", "register", "note", "record"} =>
           Len(got[r]) = Len(batch[r]) /\ at[r] \in 1..Len(batch[r])
    /\ pc[r] = "idle" => got[r] = <<>> /\ at[r] = 1
RefreshesWereServed == \A r \in Refreshers : Progress(r) /\ Downloaded(r)

\* A document that is returned is one of the URL asked for.
Fits(r) == "data" \in DOMAIN r => r.url \in Urls /\ r.data \in served[r.url] \cap Valid
RepliesFit == \A c \in Fetchers : Fits(reply[c])

OriginIsServed == \A u \in Urls : origin[final[u]] \in served[u]

Served ==
    /\ Types /\ OriginIsServed /\ RowsWereServed /\ CallsWereServed /\ RefreshesWereServed
    /\ RepliesFit

\* What a download of a URL returns, and where it ends: a document that a
\* download of either returns.
LEMMA DownloadIsServed ==
    ASSUME Served, NEW u \in Urls
    PROVE  /\ final[u] \in Origins /\ final[u] \in Urls /\ origin[final[u]] \in Contents
           /\ origin[final[u]] \in served[u] \cap served[final[u]]
<1>1. final \in [Urls -> Urls] /\ final[final[u]] = final[u] /\ final \in Redirects
    BY UrlAssumption DEF Served, Types
<1>2. final[u] \in Origins
    BY <1>1 DEF Origins
<1>3. origin[final[u]] \in served[u] /\ origin[final[final[u]]] \in served[final[u]]
    BY <1>1 DEF Served, OriginIsServed
<1> QED BY <1>1, <1>2, <1>3 DEF Served, Types

LEMMA InitServed == Init => Served
<1> SUFFICES ASSUME Init PROVE Served
    OBVIOUS
<1>1. NoFetch \in Call
    BY RequestAssumption, UrlAssumption DEF NoFetch, Asked, Call, Modes
<1>2. Types
  <2>1. /\ final \in Redirects /\ origin \in [Origins -> Contents]
        /\ since \in [Fetchers -> SUBSET Contents]
      BY DEF Init
  <2>0. served \in [Urls -> SUBSET Contents]
      BY <2>1, UrlAssumption DEF Init, Origins
  <2>2. reply = [c \in Fetchers |-> reply[c]]
      BY DEF Init
  <2>3. batch \in [Refreshers -> Seq(Refs)] /\ got \in [Refreshers -> Seq(Downloads)]
      BY DEF Init
  <2>4. fetch \in [Fetchers -> Call]
      BY <1>1 DEF Init
  <2>5. pc \in [Processes -> Steps] /\ at \in [Refreshers -> Nat] /\ turns \in BOOLEAN
      BY DEF Init, Steps
  <2>6. file \in [Paths -> Contents \cup {Absent}]
      BY DEF Init
  <2> QED BY <2>0, <2>1, <2>2, <2>3, <2>4, <2>5, <2>6 DEF Types
<1>3. OriginIsServed /\ RowsWereServed
    BY DEF Init, OriginIsServed, RowsWereServed
<1>4. CallsWereServed
    BY ProcessAssumption DEF Init, CallsWereServed, Processes
<1>5. RefreshesWereServed
    BY DEF Init, RefreshesWereServed, Progress, Downloaded, Processes
<1>6. RepliesFit
    BY DEF Init, RepliesFit, Fits, NoReply
<1> QED BY <1>2, <1>3, <1>4, <1>5, <1>6 DEF Served

(***************************************************************************)
(* The steps of a fetch.                                                   *)
(***************************************************************************)
\* A step of a fetch that changes no row.
LEMMA FetchKeeps ==
    ASSUME NEW c \in Fetchers, Served, Keep,
           NEW step \in Steps, pc' = [pc EXCEPT ![c] = step],
           NEW call \in Call, fetch' = [fetch EXCEPT ![c] = call],
           NEW r, reply' = [reply EXCEPT ![c] = r],
           NEW h \in SUBSET Contents, since' = [since EXCEPT ![c] = h],
           step \in {"read", "touch", "store"} => call.data \in served[call.url],
           step = "store" => call.data \in Valid \cap served[call.final],
           Fits(r)
    PROVE  Served'
<1> USE DEF Served
<1>1. UNCHANGED <<serverVars, cacheVars, refreshVars, turns>>
    BY DEF Keep
<1>2. Types'
    BY <1>1 DEF Types, serverVars, cacheVars, refreshVars, Processes
<1>3. OriginIsServed' /\ RowsWereServed'
    BY <1>1 DEF OriginIsServed, RowsWereServed, serverVars, cacheVars
<1>4. CallsWereServed'
    BY <1>1 DEF CallsWereServed, Types, serverVars, Processes
<1>5. RefreshesWereServed'
    BY <1>1, ProcessAssumption DEF RefreshesWereServed, Progress, Downloaded, Types, serverVars, refreshVars, Processes
<1>6. RepliesFit'
    BY <1>1 DEF RepliesFit, Fits, Types, serverVars
<1> QED BY <1>2, <1>3, <1>4, <1>5, <1>6

LEMMA CallsAreTyped ==
    /\ NoFetch \in Call
    /\ \A c \in Fetchers : Types => Asked(fetch[c].url, fetch[c].mode) \in Call
  BY RequestAssumption, UrlAssumption DEF NoFetch, Asked, Call, Modes, Types

LEMMA ReplyKeeps ==
    ASSUME NEW c \in Fetchers, Served, Keep, NEW r, Reply(c, r),
           Fits(r)
    PROVE  Served'
<1>1. /\ pc' = [pc EXCEPT ![c] = "idle"] /\ fetch' = [fetch EXCEPT ![c] = NoFetch]
      /\ reply' = [reply EXCEPT ![c] = r] /\ since' = [since EXCEPT ![c] = {}]
    BY DEF Reply
<1>2. "idle" \in Steps
    BY DEF Steps
<1> QED BY <1>1, <1>2, CallsAreTyped, FetchKeeps

LEMMA RefuseKeeps ==
    ASSUME NEW c \in Fetchers, Served, Keep, NEW error, Refuse(c, error)
    PROVE  Served'
<1> DEFINE r == [mode |-> fetch[c].mode, error |-> error]
<1>1. Reply(c, r) /\ Fits(r)
    BY DEF Refuse, Fits
<1> HIDE DEF r
<1> QED BY <1>1, ReplyKeeps

LEMMA FallbackKeeps ==
    ASSUME NEW c \in Fetchers, Served, Keep, NEW error, Fallback(c, error)
    PROVE  Served'
<1>1. CASE Refuse(c, error)
    BY <1>1, RefuseKeeps
<1>2. CASE Retry(c)
  <2> DEFINE call == Asked(fetch[c].url, fetch[c].mode)
  <2>1. /\ pc' = [pc EXCEPT ![c] = "get"] /\ fetch' = [fetch EXCEPT ![c] = call]
        /\ UNCHANGED <<reply, since>>
      BY <1>2 DEF Retry, Goto
  <2>2. call \in Call
      BY CallsAreTyped DEF Served
  <2>3. reply' = [reply EXCEPT ![c] = reply[c]] /\ since' = [since EXCEPT ![c] = since[c]] /\ since[c] \in SUBSET Contents
      BY <2>1 DEF Served, Types
  <2>4. Fits(reply[c])
      BY DEF Served, RepliesFit
  <2>5. "get" \in Steps
      BY DEF Steps
  <2> HIDE DEF call
  <2> QED BY <2>1, <2>2, <2>3, <2>4, <2>5, FetchKeeps
<1> QED BY <1>1, <1>2 DEF Fallback

LEMMA GotoKeeps ==
    ASSUME NEW c \in Fetchers, Served, Keep, NEW step \in {"read", "touch", "store"}, Goto(c, step),
           NEW call \in Call, fetch' = [fetch EXCEPT ![c] = call],
           call.data \in served[call.url],
           step = "store" => call.data \in Valid \cap served[call.final]
    PROVE  Served'
<1>1. /\ pc' = [pc EXCEPT ![c] = step] /\ reply' = [reply EXCEPT ![c] = reply[c]]
      /\ since' = [since EXCEPT ![c] = since[c]] /\ since[c] \in SUBSET Contents
    BY DEF Goto, Served, Types
<1>2. Fits(reply[c])
    BY DEF Served, RepliesFit
<1>3. step \in Steps
    BY DEF Steps
<1> QED BY <1>1, <1>2, <1>3, FetchKeeps

LEMMA StartFetchKeeps == ASSUME NEW c \in Fetchers, Served, StartFetch(c) PROVE Served'
<1>1. PICK u \in Requested, mode \in Modes :
         /\ fetch' = [fetch EXCEPT ![c] = Asked(u, mode)]
         /\ pc' = [pc EXCEPT ![c] = IF mode \in {"read-write", "offline"} THEN "load" ELSE "get"]
         /\ since' = [since EXCEPT ![c] = {origin[final[u]]}]
         /\ reply' = [reply EXCEPT ![c] = NoReply]
    BY DEF StartFetch
<1>2. Keep
    BY DEF StartFetch
<1>3. Asked(u, mode) \in Call
    BY UrlAssumption DEF Asked, Call
<1>4. Fits(NoReply)
    BY DEF NoReply, Fits
<1> DEFINE step == IF mode \in {"read-write", "offline"} THEN "load" ELSE "get"
<1>5. step \in Steps /\ step \notin {"read", "touch", "store"}
    BY DEF Steps
<1>6. pc' = [pc EXCEPT ![c] = step]
    BY <1>1
<1>7. {origin[final[u]]} \in SUBSET Contents
    BY DownloadIsServed, UrlAssumption
<1> HIDE DEF step
<1> QED BY <1>1, <1>2, <1>3, <1>4, <1>5, <1>6, <1>7, FetchKeeps

LEMMA LoadKeeps == ASSUME NEW c \in Fetchers, Served, Load(c) PROVE Served'
<1> DEFINE u == fetch[c].url
           call == [fetch[c] EXCEPT !.place = rows[u].place, !.data = rows[u].data]
<1>0. Keep
    BY DEF Load
<1>1. CASE u \in DOMAIN rows /\ fetch' = [fetch EXCEPT ![c].place = rows[u].place, ![c].data = rows[u].data] /\ Goto(c, "read")
  <2>1. fetch[c] \in Call
      BY DEF Served, Types
  <2>2. u \in Urls /\ rows[u].data \in served[u] /\ rows[u].place \in Places /\ rows[u].data \in Contents
      BY <1>1 DEF Served, RowsWereServed, Types
  <2>3. call \in Call /\ call.data \in served[call.url]
      BY <2>1, <2>2 DEF Call
  <2>4. fetch' = [fetch EXCEPT ![c] = call]
      BY <1>1, <2>1 DEF Served, Types, Call
  <2> HIDE DEF call
  <2> QED BY <1>0, <1>1, <2>3, <2>4, GotoKeeps
<1>2. CASE Fallback(c, "uncached")
    BY <1>0, <1>2, FallbackKeeps
<1>3. CASE Refuse(c, "error")
    BY <1>0, <1>3, RefuseKeeps
<1> QED BY <1>1, <1>2, <1>3 DEF Load

LEMMA ReadKeeps == ASSUME NEW c \in Fetchers, Served, Read(c) PROVE Served'
<1>0. Keep /\ pc[c] = "read"
    BY DEF Read
<1>1. CASE Goto(c, "touch") /\ UNCHANGED fetch
  <2>1. fetch[c] \in Call /\ fetch' = [fetch EXCEPT ![c] = fetch[c]]
      BY <1>1 DEF Served, Types
  <2>2. fetch[c].data \in served[fetch[c].url]
      BY <1>0 DEF Served, CallsWereServed
  <2> QED BY <1>0, <1>1, <2>1, <2>2, GotoKeeps
<1>2. CASE Fallback(c, "integrity")
    BY <1>0, <1>2, FallbackKeeps
<1> QED BY <1>1, <1>2 DEF Read

LEMMA GiveKeeps ==
    ASSUME NEW c \in Fetchers, Served, Keep, NEW d \in served[fetch[c].url] \cap Valid, Give(c, d)
    PROVE  Served'
<1> DEFINE r == [url |-> fetch[c].url, data |-> d]
<1>1. Reply(c, r) /\ Fits(r)
    BY DEF Give, Fits, Served, Types, Call
<1> HIDE DEF r
<1> QED BY <1>1, ReplyKeeps

LEMMA TouchKeeps == ASSUME NEW c \in Fetchers, Served, Touch(c) PROVE Served'
<1>0. Keep /\ pc[c] = "touch"
    BY DEF Touch
<1>1. CASE fetch[c].data \in Valid /\ Give(c, fetch[c].data)
  <2>1. fetch[c].data \in served[fetch[c].url]
      BY <1>0 DEF Served, CallsWereServed
  <2> QED BY <1>0, <1>1, <2>1, GiveKeeps
<1>2. CASE Fallback(c, "integrity")
    BY <1>0, <1>2, FallbackKeeps
<1>3. CASE Refuse(c, "error")
    BY <1>0, <1>3, RefuseKeeps
<1> QED BY <1>1, <1>2, <1>3 DEF Touch

LEMMA GetKeeps == ASSUME NEW c \in Fetchers, Served, Get(c) PROVE Served'
<1> DEFINE end == final[fetch[c].url]
           d == origin[end]
           call == [fetch[c] EXCEPT !.data = d, !.final = end]
<1>0. Keep
    BY DEF Get
<1>1. fetch[c] \in Call /\ fetch[c].url \in Urls
    BY DEF Served, Types, Call
<1>2. d \in served[fetch[c].url] \cap served[end] /\ d \in Contents /\ end \in Urls
    BY <1>1, DownloadIsServed
<1>3. CASE d \in Valid /\ Give(c, d)
    BY <1>0, <1>2, <1>3, GiveKeeps
<1>4. CASE d \in Valid /\ Goto(c, "store") /\ fetch' = [fetch EXCEPT ![c].data = d, ![c].final = end]
  <2>1. call \in Call /\ call.data = d /\ call.url = fetch[c].url /\ call.final = end
      BY <1>1, <1>2 DEF Call
  <2>2. fetch' = [fetch EXCEPT ![c] = call]
      BY <1>1, <1>4 DEF Served, Types
  <2> HIDE DEF call, d, end
  <2> QED BY <1>0, <1>2, <1>4, <2>1, <2>2, GotoKeeps
<1>5. CASE Refuse(c, "error")
    BY <1>0, <1>5, RefuseKeeps
<1> QED BY <1>3, <1>4, <1>5 DEF Get

\* Rows written under a URL and the one that its download ended at.
LEMMA StoreSpecKeeps ==
    ASSUME Served, UNCHANGED served, NEW u \in Urls, NEW end \in Urls,
           NEW d \in served[u] \cap served[end], NEW p \in Places, StoreSpec(u, end, d, p)
    PROVE  RowsWereServed'
<1> SUFFICES ASSUME NEW v \in DOMAIN rows'
             PROVE  v \in Urls /\ rows'[v].data \in served[v] /\ rows'[v].place \in Places
    BY DEF RowsWereServed
<1>1. CASE v \in {u, end}
    BY <1>1 DEF StoreSpec, Upsert
<1>2. CASE v \notin {u, end}
  <2>1. v \in DOMAIN rows /\ rows'[v] = rows[v]
      BY <1>2 DEF StoreSpec, Upsert
  <2> QED BY <2>1 DEF Served, RowsWereServed
<1> QED BY <1>1, <1>2

LEMMA StoreKeeps == ASSUME NEW c \in Fetchers, Served, Store(c) PROVE Served'
<1> DEFINE d == fetch[c].data
           u == fetch[c].url
           r == [url |-> u, data |-> d]
<1>0. KeepButRows /\ pc[c] = "store"
    BY DEF Store
<1>1. CASE UNCHANGED rows /\ Refuse(c, "error")
  <2>1. Keep
      BY <1>0, <1>1 DEF Keep, KeepButRows, cacheVars
  <2> QED BY <1>1, <2>1, RefuseKeeps
<1>2. CASE StoreSpec(u, fetch[c].final, d, Inline) /\ Give(c, d)
  <2>1. u \in Urls /\ fetch[c].final \in Urls /\ d \in served[u] \cap served[fetch[c].final] \cap Valid
      BY <1>0 DEF Served, Types, Call, CallsWereServed
  <2>2. UNCHANGED <<serverVars, artifacts, file, unsettled, refreshVars, turns>>
      BY <1>0 DEF KeepButRows
  <2>3. /\ pc' = [pc EXCEPT ![c] = "idle"] /\ fetch' = [fetch EXCEPT ![c] = NoFetch]
        /\ reply' = [reply EXCEPT ![c] = r] /\ since' = [since EXCEPT ![c] = {}]
      BY <1>2 DEF Give, Reply
  <2>4. RowsWereServed'
      BY <1>2, <2>1, <2>2, StoreSpecKeeps DEF serverVars, Places
  <2>5. Fits(r)
      BY <2>1 DEF Fits
  <2>6. OriginIsServed' /\ "idle" \in Steps
      BY <2>2 DEF Served, OriginIsServed, serverVars, Steps
  <2> HIDE DEF r, d, u
  <2>7. Types'
      BY <2>2, <2>3, <2>6, CallsAreTyped DEF Served, Types, serverVars, refreshVars, Processes
  <2>8. CallsWereServed'
      BY <2>2, <2>3 DEF Served, CallsWereServed, Types, serverVars, Processes
  <2>9. RefreshesWereServed'
      BY <2>2, <2>3, ProcessAssumption DEF Served, RefreshesWereServed, Progress, Downloaded, Types,
            serverVars, refreshVars, Processes
  <2>10. RepliesFit'
      BY <2>2, <2>3, <2>5 DEF Served, RepliesFit, Fits, Types, serverVars
  <2> QED BY <2>4, <2>6, <2>7, <2>8, <2>9, <2>10 DEF Served
<1> QED BY <1>1, <1>2 DEF Store

(***************************************************************************)
(* The steps of a refresh.                                                 *)
(***************************************************************************)
\* A step of a refresh, given what becomes of the rows, the files and its own state.
LEMMA RefreshKeeps ==
    ASSUME NEW r \in Refreshers, Served, UNCHANGED <<serverVars, since, fetch, reply, turns>>,
           NEW step \in Steps, pc' = [pc EXCEPT ![r] = step],
           NEW b \in Seq(Refs), batch' = [batch EXCEPT ![r] = b],
           NEW g \in Seq(Downloads), got' = [got EXCEPT ![r] = g],
           NEW a \in Nat, at' = [at EXCEPT ![r] = a],
           file' \in [Paths -> Contents \cup {Absent}], RowsWereServed',
           Progress(r)', Downloaded(r)'
    PROVE  Served'
<1> USE DEF Served
<1>1. Types'
    BY DEF Types, serverVars, Processes
<1>2. OriginIsServed' /\ RepliesFit'
    BY DEF OriginIsServed, RepliesFit, Fits, serverVars
<1>3. CallsWereServed'
    BY ProcessAssumption DEF CallsWereServed, Types, serverVars, Processes
<1>4. ASSUME NEW x \in Refreshers, x # r PROVE Progress(x)' /\ Downloaded(x)'
  <2>1. pc'[x] = pc[x] /\ batch'[x] = batch[x] /\ got'[x] = got[x] /\ at'[x] = at[x]
      BY <1>4 DEF Types, Processes
  <2>2. Progress(x) /\ Downloaded(x)
      BY DEF RefreshesWereServed
  <2> QED BY <2>1, <2>2 DEF Progress, Downloaded, serverVars
<1>5. RefreshesWereServed'
    BY <1>4 DEF RefreshesWereServed
<1> QED BY <1>1, <1>2, <1>3, <1>5

\* One that ends it.
LEMMA LeaveKeeps ==
    ASSUME NEW r \in Refreshers, Served, UNCHANGED <<serverVars, fetch, turns>>, Leave(r),
           file' \in [Paths -> Contents \cup {Absent}], RowsWereServed'
    PROVE  Served'
<1>1. /\ pc' = [pc EXCEPT ![r] = "idle"] /\ batch' = [batch EXCEPT ![r] = <<>>]
      /\ got' = [got EXCEPT ![r] = <<>>] /\ at' = [at EXCEPT ![r] = 1] /\ UNCHANGED <<reply, since>>
    BY DEF Leave, Goto
<1>2. <<>> \in Seq(Refs) /\ <<>> \in Seq(Downloads) /\ "idle" \in Steps
    BY DEF Steps
<1>3. pc'[r] = "idle" /\ batch'[r] = <<>> /\ got'[r] = <<>> /\ at'[r] = 1
    BY <1>1 DEF Served, Types, Processes
<1>4. Progress(r)' /\ Downloaded(r)'
    BY <1>3 DEF Progress, Downloaded
<1> QED BY <1>1, <1>2, <1>4, RefreshKeeps

\* One that only goes on, having downloaded all.
LEMMA AdvanceKeeps ==
    ASSUME NEW r \in Refreshers, Served, UNCHANGED <<serverVars, fetch, turns, batch, got, file>>,
           pc[r] \in {"check", "register", "note", "record"},
           NEW step \in {"check", "register", "note", "record"}, Goto(r, step),
           NEW a \in 1..Len(batch[r]), at' = [at EXCEPT ![r] = a], RowsWereServed'
    PROVE  Served'
<1>1. pc' = [pc EXCEPT ![r] = step] /\ UNCHANGED <<reply, since>>
    BY DEF Goto
<1>2. batch[r] \in Seq(Refs) /\ got[r] \in Seq(Downloads) /\ a \in Nat /\ step \in Steps
    BY DEF Served, Types, Steps
<1>3. batch' = [batch EXCEPT ![r] = batch[r]] /\ got' = [got EXCEPT ![r] = got[r]]
    BY DEF Served, Types
<1>4. file' \in [Paths -> Contents \cup {Absent}]
    BY DEF Served, Types
<1>5. pc'[r] = step /\ at'[r] = a
    BY <1>1 DEF Served, Types, Processes
<1>6. Progress(r) /\ Downloaded(r)
    BY DEF Served, RefreshesWereServed
<1>7. Progress(r)'
    BY <1>5, <1>6 DEF Progress
<1>8. Downloaded(r)'
    BY <1>6 DEF Downloaded, serverVars
<1> QED BY <1>1, <1>2, <1>3, <1>4, <1>7, <1>8, RefreshKeeps

\* The reference that a refresh is at, and its document.
LEMMA RefreshIsAt ==
    ASSUME NEW r \in Refreshers, Served
    PROVE  /\ pc[r] \in {"download", "write", "check", "register", "note", "record"} =>
                 Ref(r) \in Refs /\ Path(r) \in Paths
           /\ pc[r] \in {"write", "check", "register", "note", "record"} =>
                 /\ got[r][at[r]].final \in Urls /\ Reported(r) \in Contents
                 /\ Reported(r) \in served[Ref(r)] \cap served[got[r][at[r]].final]
<1>1. Progress(r) /\ Downloaded(r)
    BY DEF Served, RefreshesWereServed
<1>2. batch[r] \in Seq(Refs) /\ got[r] \in Seq(Downloads) /\ at[r] \in Nat
    BY DEF Served, Types
<1>3. pc[r] \in {"download", "write", "check", "register", "note", "record"} => at[r] \in 1..Len(batch[r])
    BY <1>1, <1>2 DEF Progress
<1>4. pc[r] \in {"write", "check", "register", "note", "record"} => at[r] \in 1..Len(got[r])
    BY <1>1, <1>2 DEF Progress
<1>5. pc[r] \in {"write", "check", "register", "note", "record"} => got[r][at[r]] \in Downloads
    BY <1>2, <1>4
<1> QED BY <1>1, <1>2, <1>3, <1>4, <1>5, UrlAssumption DEF Ref, Path, Reported, Downloaded, Downloads

LEMMA StartRefreshKeeps == ASSUME NEW r \in Refreshers, Served, StartRefresh(r) PROVE Served'
<1>1. PICK b \in Batches : batch' = [batch EXCEPT ![r] = b]
    BY DEF StartRefresh
<1>2. /\ pc' = [pc EXCEPT ![r] = "download"] /\ pc[r] = "idle"
      /\ UNCHANGED <<serverVars, cacheVars, fetch, got, at, turns, reply, since>>
    BY DEF StartRefresh, Goto
<1>3. b \in Seq(Refs) /\ b # <<>> /\ "download" \in Steps
    BY RequestAssumption DEF Steps
<1>4. got' = [got EXCEPT ![r] = <<>>] /\ at' = [at EXCEPT ![r] = 1] /\ got[r] = <<>> /\ at[r] = 1
    BY <1>2 DEF Served, Types, RefreshesWereServed, Progress
<1>5. pc'[r] = "download" /\ batch'[r] = b /\ got'[r] = <<>> /\ at'[r] = 1
    BY <1>1, <1>2, <1>4 DEF Served, Types, Processes
<1>6. Len(b) \in Nat /\ Len(b) >= 1
    BY <1>3
<1>7. Progress(r)' /\ Downloaded(r)'
    BY <1>5, <1>6 DEF Progress, Downloaded
<1>8. file' \in [Paths -> Contents \cup {Absent}] /\ RowsWereServed'
    BY <1>2 DEF Served, Types, RowsWereServed, cacheVars, serverVars
<1>9. <<>> \in Seq(Downloads) /\ 1 \in Nat
    OBVIOUS
<1> QED BY <1>1, <1>2, <1>3, <1>4, <1>7, <1>8, <1>9, RefreshKeeps

LEMMA DownloadKeeps == ASSUME NEW r \in Refreshers, Served, Download(r) PROVE Served'
<1> DEFINE end == final[Ref(r)]
           d == [data |-> origin[end], final |-> end]
           g == Append(got[r], d)
<1>0. pc[r] = "download" /\ UNCHANGED <<serverVars, cacheVars, fetch, turns>>
    BY DEF Download
<1>1. file' \in [Paths -> Contents \cup {Absent}] /\ RowsWereServed'
    BY <1>0 DEF Served, Types, RowsWereServed, cacheVars, serverVars
<1>2. CASE Leave(r)
    BY <1>0, <1>1, <1>2, LeaveKeeps
<1>3. CASE /\ got' = [got EXCEPT ![r] = g] /\ Goto(r, "write")
           /\ UNCHANGED <<batch, at>>
  <2>1. d \in Downloads /\ d.data \in served[Ref(r)] \cap served[d.final]
      BY <1>0, RefreshIsAt, DownloadIsServed, UrlAssumption DEF Downloads
  <2>2. got[r] \in Seq(Downloads) /\ batch[r] \in Seq(Refs) /\ at[r] \in Nat
      BY DEF Served, Types
  <2>3. Progress(r) /\ Downloaded(r)
      BY DEF Served, RefreshesWereServed
  <2>4. at[r] = Len(got[r]) + 1 /\ at[r] <= Len(batch[r])
      BY <1>0, <2>3 DEF Progress
  <2>5. d.data \in served[batch[r][Len(got[r]) + 1]] \cap served[d.final]
      BY <2>1, <2>4 DEF Ref
  <2> HIDE DEF d
  <2>6. /\ g \in Seq(Downloads) /\ Len(g) = Len(got[r]) + 1 /\ DOMAIN g = 1..Len(g)
        /\ \A i \in 1..Len(got[r]) : g[i] = got[r][i]
        /\ g[Len(g)] = d
      BY <2>1, <2>2
  <2>7. \A i \in DOMAIN g : g[i].data \in served[batch[r][i]] \cap served[g[i].final]
    <3>1. TAKE i \in DOMAIN g
    <3>2. CASE i \in 1..Len(got[r])
        BY <2>2, <2>3, <2>6, <3>2 DEF Downloaded
    <3>3. CASE i = Len(g)
        BY <2>5, <2>6, <3>3
    <3> QED BY <2>2, <2>6, <3>2, <3>3
  <2> HIDE DEF g
  <2>8. pc' = [pc EXCEPT ![r] = "write"] /\ UNCHANGED <<reply, since>> /\ "write" \in Steps
      BY <1>3 DEF Goto, Steps
  <2>9. batch' = [batch EXCEPT ![r] = batch[r]] /\ at' = [at EXCEPT ![r] = at[r]]
      BY <1>3 DEF Served, Types
  <2>10. pc'[r] = "write" /\ batch'[r] = batch[r] /\ got'[r] = g /\ at'[r] = at[r]
      BY <1>3, <2>8 DEF Served, Types, Processes
  <2>11. Progress(r)'
      BY <2>2, <2>4, <2>6, <2>10 DEF Progress
  <2>12. Downloaded(r)'
      BY <1>0, <2>7, <2>10 DEF Downloaded, serverVars
  <2> QED BY <1>0, <1>1, <1>3, <2>2, <2>6, <2>8, <2>9, <2>11, <2>12, RefreshKeeps
<1> QED BY <1>0, <1>2, <1>3 DEF Download

LEMMA WriteArtifactKeeps == ASSUME NEW r \in Refreshers, Served, WriteArtifact(r) PROVE Served'
<1>0. pc[r] = "write" /\ UNCHANGED <<serverVars, rows, artifacts, fetch, turns>>
    BY DEF WriteArtifact
<1>1. RowsWereServed'
    BY <1>0 DEF Served, RowsWereServed, serverVars
<1>2. CASE Leave(r) /\ UNCHANGED file
  <2>1. file' \in [Paths -> Contents \cup {Absent}]
      BY <1>2 DEF Served, Types
  <2> QED BY <1>0, <1>1, <1>2, <2>1, LeaveKeeps
<1>3. CASE /\ file' = [file EXCEPT ![Path(r)] = Reported(r)]
           /\ at' = [at EXCEPT ![r] = IF Finished(r) THEN 1 ELSE at[r] + 1]
           /\ Goto(r, IF Finished(r) THEN "check" ELSE "download")
           /\ UNCHANGED <<batch, got>>
  <2> DEFINE step == IF Finished(r) THEN "check" ELSE "download"
             a == IF Finished(r) THEN 1 ELSE at[r] + 1
  <2>1. file' \in [Paths -> Contents \cup {Absent}]
      BY <1>0, <1>3, RefreshIsAt DEF Served, Types
  <2>2. got[r] \in Seq(Downloads) /\ batch[r] \in Seq(Refs) /\ at[r] \in Nat
      BY DEF Served, Types
  <2>3. Progress(r) /\ Downloaded(r)
      BY DEF Served, RefreshesWereServed
  <2>4. at[r] = Len(got[r]) /\ at[r] # 0 /\ Len(got[r]) <= Len(batch[r])
      BY <1>0, <2>3 DEF Progress
  <2>5. /\ step = "check" => at[r] = Len(batch[r]) /\ a = 1
        /\ step = "download" => at[r] # Len(batch[r]) /\ a = at[r] + 1
        /\ step \in {"check", "download"} /\ a \in Nat
      BY <2>2 DEF Finished
  <2> HIDE DEF step, a
  <2>6. pc' = [pc EXCEPT ![r] = step] /\ UNCHANGED <<reply, since>> /\ step \in Steps /\ at' = [at EXCEPT ![r] = a]
      BY <1>3, <2>5 DEF Goto, Steps, step, a
  <2>7. batch' = [batch EXCEPT ![r] = batch[r]] /\ got' = [got EXCEPT ![r] = got[r]]
      BY <1>3 DEF Served, Types
  <2>8. pc'[r] = step /\ batch'[r] = batch[r] /\ got'[r] = got[r] /\ at'[r] = a
      BY <1>3, <2>6 DEF Served, Types, Processes
  <2>9. Len(got[r]) \in Nat /\ Len(batch[r]) \in Nat
      BY <2>2
  <2>10. Progress(r)'
      BY <2>2, <2>4, <2>5, <2>8, <2>9 DEF Progress
  <2>11. Downloaded(r)'
      BY <1>0, <2>3, <2>8 DEF Downloaded, serverVars
  <2> QED BY <1>0, <1>1, <2>1, <2>2, <2>5, <2>6, <2>7, <2>10, <2>11, RefreshKeeps
<1> QED BY <1>2, <1>3 DEF WriteArtifact

LEMMA CheckKeeps == ASSUME NEW r \in Refreshers, Served, Check(r) PROVE Served'
<1>0. pc[r] = "check" /\ UNCHANGED <<serverVars, cacheVars, fetch, turns>>
    BY DEF Check
<1>1. RowsWereServed' /\ file' \in [Paths -> Contents \cup {Absent}] /\ UNCHANGED file
    BY <1>0 DEF Served, Types, RowsWereServed, serverVars, cacheVars
<1>2. CASE Leave(r)
    BY <1>0, <1>1, <1>2, LeaveKeeps
<1>3. CASE Goto(r, "register") /\ UNCHANGED refreshVars
  <2>1. at[r] \in 1..Len(batch[r]) /\ at' = [at EXCEPT ![r] = at[r]]
      BY <1>0, <1>3 DEF Served, Types, RefreshesWereServed, Progress, refreshVars
  <2> QED BY <1>0, <1>1, <1>3, <2>1, AdvanceKeeps DEF refreshVars
<1> QED BY <1>2, <1>3 DEF Check, Advance

LEMMA RegisterKeeps == ASSUME NEW r \in Refreshers, Served, Register(r) PROVE Served'
<1>0. pc[r] = "register" /\ UNCHANGED <<serverVars, artifacts, file, fetch, turns>>
    BY DEF Register
<1>1. file' \in [Paths -> Contents \cup {Absent}]
    BY <1>0 DEF Served, Types
<1>2. CASE Leave(r) /\ UNCHANGED rows
  <2>1. RowsWereServed'
      BY <1>0, <1>2 DEF Served, RowsWereServed, serverVars
  <2> QED BY <1>0, <1>1, <1>2, <2>1, LeaveKeeps
<1>3. CASE /\ StoreSpec(Ref(r), got[r][at[r]].final, Reported(r), Path(r))
           /\ Goto(r, "note") /\ UNCHANGED refreshVars
  <2>1. at[r] \in 1..Len(batch[r]) /\ at' = [at EXCEPT ![r] = at[r]]
      BY <1>0, <1>3 DEF Served, Types, RefreshesWereServed, Progress, refreshVars
  <2>2. /\ Ref(r) \in Urls /\ Path(r) \in Places /\ got[r][at[r]].final \in Urls
        /\ Reported(r) \in served[Ref(r)] \cap served[got[r][at[r]].final]
      BY <1>0, RefreshIsAt, UrlAssumption DEF Places
  <2>3. RowsWereServed'
      BY <1>0, <1>3, <2>2, StoreSpecKeeps DEF serverVars
  <2> QED BY <1>0, <1>3, <2>1, <2>3, AdvanceKeeps DEF refreshVars
<1> QED BY <1>2, <1>3 DEF Register, Advance

LEMMA NoteKeeps == ASSUME NEW r \in Refreshers, Served, Note(r) PROVE Served'
<1>0. /\ pc[r] = "note" /\ UNCHANGED <<serverVars, cacheVars, fetch, turns, batch, got, at>>
      /\ Goto(r, "record")
    BY DEF Note
<1>1. RowsWereServed' /\ UNCHANGED file
    BY <1>0 DEF Served, RowsWereServed, serverVars, cacheVars
<1>2. at[r] \in 1..Len(batch[r]) /\ at' = [at EXCEPT ![r] = at[r]]
    BY <1>0 DEF Served, Types, RefreshesWereServed, Progress
<1> QED BY <1>0, <1>1, <1>2, AdvanceKeeps

LEMMA RecordKeeps == ASSUME NEW r \in Refreshers, Served, Record(r) PROVE Served'
<1>0. pc[r] = "record" /\ UNCHANGED <<serverVars, rows, file, fetch, turns>>
    BY DEF Record
<1>1. RowsWereServed' /\ file' \in [Paths -> Contents \cup {Absent}] /\ UNCHANGED file
    BY <1>0 DEF Served, Types, RowsWereServed, serverVars
<1>2. CASE Leave(r)
    BY <1>0, <1>1, <1>2, LeaveKeeps
<1>3. CASE /\ ~Finished(r) /\ at' = [at EXCEPT ![r] = at[r] + 1]
           /\ Goto(r, "check") /\ UNCHANGED <<batch, got>>
  <2>1. at[r] \in 1..Len(batch[r]) /\ Len(batch[r]) \in Nat
      BY <1>0 DEF Served, Types, RefreshesWereServed, Progress
  <2>2. at[r] + 1 \in 1..Len(batch[r])
      BY <1>3, <2>1 DEF Finished
  <2> QED BY <1>0, <1>1, <1>3, <2>2, AdvanceKeeps
<1> QED BY <1>2, <1>3 DEF Record

LEMMA CrashKeeps == ASSUME NEW r \in Refreshers, Served, Crash(r) PROVE Served'
<1>1. UNCHANGED <<serverVars, cacheVars, fetch, turns>> /\ Leave(r)
    BY DEF Crash
<1>2. RowsWereServed' /\ file' \in [Paths -> Contents \cup {Absent}]
    BY <1>1 DEF Served, Types, RowsWereServed, serverVars, cacheVars
<1> QED BY <1>1, <1>2, LeaveKeeps

\* A server changes a document or a redirect.
LEMMA ChangeKeeps ==
    ASSUME Served, Change, final' \in Redirects, origin' \in [Origins -> Contents]
    PROVE  Served'
<1> USE DEF Served
<1>1. /\ served' = [u \in Urls |-> served[u] \cup {origin'[final'[u]]}]
      /\ since' = [c \in Fetchers |->
            since[c] \cup (IF pc[c] = "idle" THEN {} ELSE {origin'[final'[fetch[c].url]]})]
      /\ UNCHANGED <<cacheVars, pc, fetch, refreshVars, reply, turns>>
    BY DEF Change
<1>2. \A u \in Urls : origin'[final'[u]] \in Contents
    BY UrlAssumption DEF Origins
<1>3. \A c \in Fetchers : fetch[c].url \in Urls /\ since[c] \in SUBSET Contents
    BY DEF Types, Call
<1>4. since' \in [Fetchers -> SUBSET Contents]
    BY <1>1, <1>2, <1>3
<1>5. served' \in [Urls -> SUBSET Contents]
    BY <1>1, <1>2 DEF Types
<1>6. Types'
    BY <1>1, <1>4, <1>5 DEF Types, cacheVars, refreshVars
<1>7. \A v \in Urls : served[v] \subseteq served'[v] /\ origin'[final'[v]] \in served'[v]
    BY <1>1 DEF Types
<1>8. OriginIsServed'
    BY <1>7 DEF OriginIsServed
<1>9. RowsWereServed'
    BY <1>1, <1>7 DEF RowsWereServed, cacheVars
<1>10. CallsWereServed'
    BY <1>1, <1>7 DEF CallsWereServed, Types, Call
<1>11. ASSUME NEW r \in Refreshers PROVE Progress(r)' /\ Downloaded(r)'
  <2>1. Progress(r) /\ Downloaded(r)
      BY DEF RefreshesWereServed
  <2>2. \A i \in DOMAIN got[r] : batch[r][i] \in Urls /\ got[r][i].final \in Urls
    <3>1. batch[r] \in Seq(Urls) /\ got[r] \in Seq(Downloads) /\ Len(got[r]) <= Len(batch[r])
        BY <2>1, UrlAssumption DEF Types, Progress
    <3>2. \A i \in DOMAIN got[r] : i \in DOMAIN batch[r]
        BY <3>1
    <3>3. \A i \in DOMAIN batch[r] : batch[r][i] \in Urls
        BY <3>1
    <3>4. \A i \in DOMAIN got[r] : got[r][i] \in Downloads
        BY <3>1
    <3> QED BY <3>2, <3>3, <3>4 DEF Downloads
  <2> QED BY <1>1, <1>7, <2>1, <2>2 DEF Progress, Downloaded, refreshVars
<1>12. RefreshesWereServed'
    BY <1>11 DEF RefreshesWereServed
<1>13. RepliesFit'
    BY <1>1, <1>7 DEF RepliesFit, Fits
<1> QED BY <1>6, <1>8, <1>9, <1>10, <1>12, <1>13

LEMMA PublishKeeps == ASSUME NEW u \in Origins, Served, Publish(u) PROVE Served'
<1>1. origin' \in [Origins -> Contents] /\ final' \in Redirects /\ Change
    BY DEF Publish, Served, Types
<1> QED BY <1>1, ChangeKeeps

LEMMA RedirectKeeps == ASSUME Served, Redirect PROVE Served'
<1>1. origin' \in [Origins -> Contents] /\ final' \in Redirects /\ Change
    BY DEF Redirect, Served, Types
<1> QED BY <1>1, ChangeKeeps

(***************************************************************************)
(* The theorem.                                                            *)
(***************************************************************************)
LEMMA NextKeeps == ASSUME Served, [Next]_vars PROVE Served'
<1>1. ASSUME NEW c \in Fetchers, FetchStep(c) PROVE Served'
    BY <1>1, StartFetchKeeps, LoadKeeps, ReadKeeps, TouchKeeps, GetKeeps, StoreKeeps DEF FetchStep
<1>2. ASSUME NEW r \in Refreshers, RefreshStep(r) PROVE Served'
    BY <1>2, StartRefreshKeeps, DownloadKeeps, WriteArtifactKeeps, CheckKeeps, RegisterKeeps,
       NoteKeeps, RecordKeeps DEF RefreshStep
<1>3. CASE UNCHANGED vars
    BY <1>3 DEF vars, serverVars, cacheVars, refreshVars, Served, Types, OriginIsServed,
       RowsWereServed, CallsWereServed, RefreshesWereServed, Progress, Downloaded, RepliesFit, Fits
<1> QED BY <1>1, <1>2, <1>3, CrashKeeps, PublishKeeps, RedirectKeeps DEF Next

\* Whatever modes callers use, whatever refreshes run, fail or die meanwhile
\* and whatever servers publish, a document that downloadSpecWithCache returns
\* was served for its URL and is one that Import accepts.
THEOREM ServedCorrect == Spec => []ResultWasServed
<1>1. Served => ResultWasServed
    BY DEF Served, RepliesFit, Fits, ResultWasServed
<1> QED BY <1>1, InitServed, NextKeeps, PTL DEF Spec

(***************************************************************************)
(* While refreshes take turns, a row disagrees with its file only while    *)
(* the file is unsettled, or when the redirect of its reference has moved. *)
(* References must not share a file: registering one of them would leave   *)
(* the row of the other behind.                                            *)
(***************************************************************************)
FilesAreDistinct == \A a, b \in Refs : ArtifactPath[a] = ArtifactPath[b] => a = b

Alone == \A r, x \in Refreshers : pc[r] # "idle" /\ pc[x] # "idle" => r = x
\* A row is that of the URL it was stored for or of where that led, and a file
\* it holds is that URL's own.  It is the same as the row of that URL as long as
\* that one still ends there.
Twin(u) == rows[rows[u].original]
Backed ==
    \A u \in DOMAIN rows :
        /\ u \in {rows[u].original, rows[u].final} /\ rows[u].original \in DOMAIN rows
        /\ rows[u].place # Inline =>
               rows[u].original \in Refs /\ rows[u].place = ArtifactPath[rows[u].original]
        /\ Twin(u).final = u => Twin(u) = rows[u]
\* What StoreSpec has checked still holds when its transaction begins.
Checked == \A r \in Refreshers : pc[r] = "register" => file[Path(r)] = Reported(r)
\* The rows of the URLs that documents were stored for.
Unexplained ==
    \A u \in DOMAIN rows : rows[u].original = u /\ Mismatched(u) => rows[u].place \in unsettled
Explained == Served /\ Backed /\ (turns => Alone /\ Checked /\ Unexplained)

LEMMA InitExplained == Init => Explained
<1> SUFFICES ASSUME Init PROVE Explained
    OBVIOUS
<1>1. Backed /\ Alone /\ Checked /\ Unexplained
    BY DEF Init, Backed, Alone, Checked, Unexplained, Processes
<1> QED BY <1>1, InitServed DEF Explained

LEMMA StoreSpecBacks ==
    ASSUME Backed, NEW url, NEW end, NEW d, NEW p, StoreSpec(url, end, d, p),
           p # Inline => url \in Refs /\ p = ArtifactPath[url]
    PROVE  Backed'
<1> DEFINE twin(u) == rows'[rows'[u].original]
<1> SUFFICES ASSUME NEW u \in DOMAIN rows'
             PROVE  /\ u \in {rows'[u].original, rows'[u].final} /\ rows'[u].original \in DOMAIN rows'
                    /\ rows'[u].place # Inline =>
                           rows'[u].original \in Refs /\ rows'[u].place = ArtifactPath[rows'[u].original]
                    /\ twin(u).final = u => twin(u) = rows'[u]
    BY DEF Backed, Twin
<1>1. CASE u \in {url, end}
  <2>1. rows'[u].original = url /\ url \in DOMAIN rows' /\ rows'[url] = rows'[u]
      BY <1>1 DEF StoreSpec, Upsert
  <2>2. rows'[u] = [data |-> d, place |-> p, original |-> url, final |-> end]
      BY <1>1 DEF StoreSpec, Upsert
  <2> QED BY <1>1, <2>1, <2>2
<1>2. CASE u \notin {url, end}
  <2>1. u \in DOMAIN rows /\ rows'[u] = rows[u] /\ DOMAIN rows \subseteq DOMAIN rows'
      BY <1>2 DEF StoreSpec, Upsert
  <2>2. CASE rows[u].original \in {url, end}
    <3>1. rows'[rows[u].original].final = end
        BY <2>2 DEF StoreSpec, Upsert
    <3> QED BY <1>2, <2>1, <3>1 DEF Backed, Twin
  <2>3. CASE rows[u].original \notin {url, end}
    <3>1. rows'[rows[u].original] = rows[rows[u].original]
        BY <2>1, <2>3 DEF Backed, StoreSpec, Upsert
    <3> QED BY <2>1, <3>1 DEF Backed, Twin
  <2> QED BY <2>2, <2>3
<1> QED BY <1>1, <1>2

\* A step of a fetch.
LEMMA FetchExplains == ASSUME NEW c \in Fetchers, Explained, FetchStep(c) PROVE Explained'
<1>1. Served'
    BY StartFetchKeeps, LoadKeeps, ReadKeeps, TouchKeeps, GetKeeps, StoreKeeps DEF FetchStep, Explained
<1>2. UNCHANGED <<artifacts, file, unsettled, batch, got, at, turns>>
    BY DEF FetchStep, StartFetch, Load, Read, Touch, Get, Store, Keep, KeepButRows, cacheVars, refreshVars
<1>3. \E step : pc' = [pc EXCEPT ![c] = step]
    BY DEF FetchStep, StartFetch, Load, Read, Touch, Get, Store, Give, Refuse, Reply, Goto, Fallback, Retry
<1>4. \A r \in Refreshers : pc'[r] = pc[r]
    BY <1>3, ProcessAssumption DEF Explained, Served, Types, Processes
<1>5. turns => Alone' /\ Checked'
    BY <1>2, <1>4 DEF Explained, Alone, Checked, Path, Ref, Reported
<1>6. Backed' /\ (turns => Unexplained')
  <2>1. CASE UNCHANGED rows
      BY <1>2, <2>1 DEF Explained, Backed, Twin, Unexplained, Mismatched
  <2>2. CASE StoreSpec(fetch[c].url, fetch[c].final, fetch[c].data, Inline)
    <3>1. \A u \in DOMAIN rows' : rows'[u].place # Inline => u \in DOMAIN rows /\ rows'[u] = rows[u]
        BY <2>2 DEF StoreSpec, Upsert
    <3> QED BY <1>2, <2>2, <3>1, StoreSpecBacks DEF Explained, Unexplained, Mismatched
  <2> QED BY <2>1, <2>2 DEF FetchStep, StartFetch, Load, Read, Touch, Get, Store, Keep, cacheVars
<1> QED BY <1>1, <1>2, <1>5, <1>6 DEF Explained

\* What a step of a refresh does to the steps of the others.
LEMMA OthersWait ==
    ASSUME NEW r \in Refreshers, Served, Alone, pc[r] # "idle",
           NEW step, pc' = [pc EXCEPT ![r] = step]
    PROVE  Alone' /\ pc'[r] = step /\ \A x \in Refreshers : x # r => pc'[x] = "idle"
  BY DEF Served, Types, Processes, Alone

\* A step of a refresh that changes no row and no file and does not come to
\* its next transaction.
LEMMA RestExplains ==
    ASSUME NEW r \in Refreshers, Explained, Served', pc[r] # "idle",
           UNCHANGED <<rows, file, unsettled, turns>>,
           NEW step, step # "register", pc' = [pc EXCEPT ![r] = step]
    PROVE  Explained'
<1>1. turns => Alone' /\ Checked'
    BY OthersWait DEF Explained, Checked
<1>2. Backed' /\ (turns => Unexplained')
    BY DEF Explained, Backed, Twin, Unexplained, Mismatched
<1> QED BY <1>1, <1>2 DEF Explained

LEMMA StartRefreshExplains == ASSUME NEW r \in Refreshers, Explained, StartRefresh(r) PROVE Explained'
<1>1. /\ pc' = [pc EXCEPT ![r] = "download"] /\ (turns => \A x \in Refreshers : pc[x] = "idle")
      /\ UNCHANGED <<rows, file, unsettled, turns>>
    BY DEF StartRefresh, Goto, cacheVars
<1>2. turns => Alone' /\ Checked'
    BY <1>1 DEF Explained, Served, Types, Processes, Alone, Checked
<1>3. Backed' /\ (turns => Unexplained')
    BY <1>1 DEF Explained, Backed, Twin, Unexplained, Mismatched
<1> QED BY <1>1, <1>2, <1>3, StartRefreshKeeps DEF Explained

LEMMA WriteArtifactExplains == ASSUME NEW r \in Refreshers, Explained, WriteArtifact(r) PROVE Explained'
<1>0. pc[r] = "write" /\ Served' /\ UNCHANGED <<rows, turns>> /\ Path(r) \in Paths
    BY WriteArtifactKeeps, RefreshIsAt DEF WriteArtifact, Explained
<1>1. CASE Leave(r) /\ UNCHANGED <<file, unsettled>>
    BY <1>0, <1>1, RestExplains DEF Leave, Goto
<1>2. CASE /\ file' = [file EXCEPT ![Path(r)] = Reported(r)]
           /\ unsettled' = IF turns THEN unsettled \cup {Path(r)} ELSE {}
           /\ Goto(r, IF Finished(r) THEN "check" ELSE "download")
  <2>1. PICK step \in {"check", "download"} : pc' = [pc EXCEPT ![r] = step]
      BY <1>2 DEF Goto
  <2>2. turns => Alone' /\ Checked'
      BY <1>0, <2>1, OthersWait DEF Explained, Checked
  <2>3. \A p : p # Path(r) => file'[p] = file[p]
      BY <1>2 DEF Explained, Served, Types
  <2>4. turns => Unexplained'
      BY <1>0, <1>2, <2>3 DEF Explained, Unexplained, Mismatched
  <2>5. Backed'
      BY <1>0 DEF Explained, Backed, Twin
  <2> QED BY <1>0, <2>2, <2>4, <2>5 DEF Explained
<1> QED BY <1>1, <1>2 DEF WriteArtifact

LEMMA CheckExplains == ASSUME NEW r \in Refreshers, Explained, Check(r) PROVE Explained'
<1>0. pc[r] = "check" /\ Served' /\ UNCHANGED <<rows, file, unsettled, turns>>
    BY CheckKeeps DEF Check, Explained, cacheVars
<1>1. CASE Leave(r)
    BY <1>0, <1>1, RestExplains DEF Leave, Goto
<1>2. CASE file[Path(r)] = Reported(r) /\ Goto(r, "register") /\ UNCHANGED refreshVars
  <2>1. turns => Alone' /\ \A x \in Refreshers : x # r => pc'[x] = "idle"
      BY <1>0, <1>2, OthersWait DEF Explained, Goto
  <2>2. (file[Path(r)] = Reported(r))'
      BY <1>0, <1>2 DEF Path, Ref, Reported, refreshVars
  <2>3. turns => Checked'
      BY <2>1, <2>2 DEF Checked
  <2>4. Backed' /\ (turns => Unexplained')
      BY <1>0 DEF Explained, Backed, Twin, Unexplained, Mismatched
  <2> QED BY <1>0, <2>1, <2>3, <2>4 DEF Explained
<1> QED BY <1>1, <1>2 DEF Check, Advance

LEMMA RegisterExplains ==
    ASSUME FilesAreDistinct, NEW r \in Refreshers, Explained, Register(r)
    PROVE  Explained'
<1>0. pc[r] = "register" /\ Served' /\ UNCHANGED <<file, turns>> /\ Path(r) \in Paths /\ Ref(r) \in Refs
    BY RegisterKeeps, RefreshIsAt DEF Register, Explained
<1>1. CASE Leave(r) /\ UNCHANGED <<rows, unsettled>>
    BY <1>0, <1>1, RestExplains DEF Leave, Goto
<1>2. CASE /\ StoreSpec(Ref(r), got[r][at[r]].final, Reported(r), Path(r))
           /\ unsettled' = unsettled \ {Path(r)}
           /\ Goto(r, "note")
  <2> DEFINE end == got[r][at[r]].final
  <2>1. turns => Alone' /\ Checked'
      BY <1>0, <1>2, OthersWait DEF Explained, Goto, Checked
  <2>2. Path(r) = ArtifactPath[Ref(r)]
      BY DEF Path
  <2>3. Backed'
      BY <1>0, <1>2, <2>2, StoreSpecBacks DEF Explained
  <2>4. ASSUME turns, NEW u \in DOMAIN rows', Mismatched(u)', rows'[u].original = u
        PROVE  rows'[u].place \in unsettled'
    <3>1. file[Path(r)] = Reported(r)
        BY <1>0, <2>4 DEF Explained, Checked
    <3>2. u \notin {Ref(r), end}
      <4>1. u \in {Ref(r), end} => rows'[u].place = Path(r) /\ rows'[u].data = Reported(r)
          BY <1>2 DEF StoreSpec, Upsert
      <4> QED BY <1>0, <2>4, <3>1, <4>1 DEF Mismatched
    <3>3. u \in DOMAIN rows /\ rows'[u] = rows[u]
        BY <1>2, <3>2 DEF StoreSpec, Upsert
    <3>4. Mismatched(u) /\ rows[u].place \in unsettled /\ rows[u].original = u
        BY <1>0, <2>4, <3>3 DEF Mismatched, Explained, Unexplained
    <3>5. rows[u].place = ArtifactPath[u] /\ u \in Refs
        BY <3>3, <3>4 DEF Mismatched, Explained, Backed
    <3>6. rows[u].place # Path(r)
        BY <1>0, <2>2, <3>2, <3>5 DEF FilesAreDistinct
    <3> QED BY <1>2, <3>3, <3>4, <3>6
  <2> QED BY <1>0, <2>1, <2>3, <2>4 DEF Explained, Unexplained
<1> QED BY <1>1, <1>2 DEF Register, Advance

LEMMA NextExplains == ASSUME FilesAreDistinct, Explained, [Next]_vars PROVE Explained'
<1>0. Served'
    BY NextKeeps DEF Explained
<1>1. ASSUME NEW r \in Refreshers, Download(r) PROVE Explained'
  <2>1. pc[r] # "idle" /\ UNCHANGED <<rows, file, unsettled, turns>>
      BY <1>1 DEF Download, cacheVars
  <2>2. \E step \in {"write", "idle"} : pc' = [pc EXCEPT ![r] = step]
      BY <1>1 DEF Download, Leave, Goto
  <2> QED BY <1>0, <2>1, <2>2, RestExplains
<1>2. ASSUME NEW r \in Refreshers, Note(r) \/ Record(r) PROVE Explained'
  <2>1. pc[r] # "idle" /\ UNCHANGED <<rows, file, unsettled, turns>>
      BY <1>2 DEF Note, Record, cacheVars
  <2>2. \E step \in {"record", "check", "idle"} : pc' = [pc EXCEPT ![r] = step]
      BY <1>2 DEF Note, Record, Leave, Goto
  <2> QED BY <1>0, <2>1, <2>2, RestExplains
<1>3. ASSUME NEW r \in Refreshers, Crash(r) PROVE Explained'
  <2>1. /\ pc[r] # "idle" /\ UNCHANGED <<rows, file, unsettled, turns>>
        /\ pc' = [pc EXCEPT ![r] = "idle"]
      BY <1>3 DEF Crash, cacheVars, Leave, Goto
  <2> QED BY <1>0, <2>1, RestExplains
<1>4. CASE UNCHANGED <<cacheVars, pc, refreshVars, turns>>
    BY <1>0, <1>4 DEF cacheVars, refreshVars, Explained, Backed, Twin, Alone, Checked, Unexplained,
       Mismatched, Path, Ref, Reported
<1>5. ASSUME NEW u \in Origins, Publish(u) PROVE Explained'
    BY <1>4, <1>5 DEF Publish, Change
<1>6. CASE UNCHANGED vars
    BY <1>4, <1>6 DEF vars
<1>7. CASE Redirect
    BY <1>4, <1>7 DEF Redirect, Change
<1> QED BY <1>1, <1>2, <1>3, <1>5, <1>6, <1>7, FetchExplains, StartRefreshExplains,
       WriteArtifactExplains, CheckExplains, RegisterExplains DEF Next, RefreshStep

\* Any number of refreshes that take turns, with any batches, that fail or die
\* anywhere, and any redirects that move: a row and its file disagree only until
\* the file is registered, unless its reference leads elsewhere by now.
THEOREM MismatchCorrect == ASSUME FilesAreDistinct PROVE Spec => []MismatchIsExplained
<1>1. Explained => MismatchIsExplained
  <2> SUFFICES ASSUME Explained, turns, NEW u \in DOMAIN rows, Mismatched(u), ~LeftBehind(u)
               PROVE  rows[u].place \in unsettled
      BY DEF MismatchIsExplained
  <2> DEFINE o == rows[u].original
  <2>1. o \in DOMAIN rows /\ rows[o] = rows[u]
      BY DEF Explained, Backed, Twin, LeftBehind
  <2>2. Mismatched(o) /\ rows[o].original = o
      BY <2>1 DEF Mismatched
  <2>3. rows[o].place \in unsettled
      BY <2>1, <2>2 DEF Explained, Unexplained
  <2> QED BY <2>1, <2>3
<1>2. Explained /\ [Next]_vars => Explained'
    BY NextExplains
<1> QED BY <1>1, <1>2, InitExplained, PTL DEF Spec

(***************************************************************************)
(* A refresh that succeeds has registered all it wrote.  In turns nobody   *)
(* writes a file between its check and its registration: the digest that   *)
(* StoreCatalogArtifact takes of the file is the one that was reported.    *)
(***************************************************************************)
Registering == {"check", "register", "note", "record"}
Done(r, i) ==
    LET ref == batch[r][i] IN
    /\ ArtifactPath[ref] \notin unsettled
    /\ ref \in DOMAIN artifacts /\ artifacts[ref] = [data |-> got[r][i].data, claim |-> got[r][i].data]
    /\ file[ArtifactPath[ref]] = got[r][i].data
Settling(r) ==
    /\ pc[r] \in Registering => \A i \in 1..(at[r] - 1) : Done(r, i)
    /\ pc[r] \in {"register", "note", "record"} => file[Path(r)] = Reported(r)
    /\ pc[r] \in {"note", "record"} => Path(r) \notin unsettled
    /\ pc[r] = "record" => noted[r] = Reported(r)
Registered ==
    /\ Served /\ faults \in Nat /\ DOMAIN noted = Refreshers
    /\ turns => Alone /\ \A r \in Refreshers : Settling(r)

LEMMA InitRegistered == Init => Registered
<1> SUFFICES ASSUME Init PROVE Registered
    OBVIOUS
<1>1. Alone /\ \A r \in Refreshers : Settling(r)
    BY DEF Init, Alone, Settling, Registering, Processes
<1> QED BY <1>1, InitServed DEF Registered, Init

\* A step that leaves the refreshes alone.
LEMMA OthersSettle ==
    ASSUME Registered, Served', faults' \in Nat,
           UNCHANGED <<artifacts, file, unsettled, refreshVars, turns>>,
           \A r \in Refreshers : pc'[r] = pc[r]
    PROVE  Registered'
<1>1. turns => Alone'
    BY DEF Registered, Alone
<1>2. UNCHANGED <<batch, got, at, noted>>
    BY DEF refreshVars
<1>3. ASSUME turns, NEW r \in Refreshers PROVE Settling(r)'
  <2>1. Settling(r)
      BY <1>3 DEF Registered
  <2> QED BY <1>2, <2>1 DEF Settling, Done, Path, Ref, Reported
<1> QED BY <1>1, <1>2, <1>3 DEF Registered

\* A step of a refresh: the others are idle if refreshes take turns.
LEMMA AloneSettles ==
    ASSUME Registered, Served', NEW r \in Refreshers, pc[r] # "idle", UNCHANGED turns,
           NEW step, pc' = [pc EXCEPT ![r] = step], faults' \in Nat, DOMAIN noted' = Refreshers,
           turns => Settling(r)'
    PROVE  Registered'
<1>1. turns => Alone' /\ \A x \in Refreshers : x # r => pc'[x] = "idle"
    BY OthersWait DEF Registered
<1>2. turns => \A x \in Refreshers : x # r => Settling(x)'
    BY <1>1 DEF Settling, Registering
<1> QED BY <1>1, <1>2 DEF Registered

\* A refresh that is given up.
LEMMA LeaveSettles ==
    ASSUME Registered, Served', NEW r \in Refreshers, pc[r] # "idle", UNCHANGED turns, Leave(r),
           Succeed \/ Fail
    PROVE  Registered'
<1>1. pc' = [pc EXCEPT ![r] = "idle"] /\ noted' = [noted EXCEPT ![r] = Absent]
    BY DEF Leave, Goto
<1>2. faults' \in Nat /\ DOMAIN noted' = Refreshers
    BY <1>1 DEF Succeed, Fail, Registered
<1>3. pc'[r] = "idle"
    BY <1>1 DEF Registered, Served, Types, Processes
<1>4. Settling(r)'
    BY <1>3 DEF Settling, Registering
<1> QED BY <1>1, <1>2, <1>4, AloneSettles

LEMMA DownloadSettles ==
    ASSUME Registered, Served', NEW r \in Refreshers, Download(r) PROVE Registered'
<1>1. pc[r] # "idle" /\ UNCHANGED turns /\ Succeed
    BY DEF Download
<1>2. CASE Leave(r)
    BY <1>1, <1>2, LeaveSettles
<1>3. CASE Goto(r, "write") /\ UNCHANGED <<batch, at, noted>>
  <2>1. pc' = [pc EXCEPT ![r] = "write"] /\ faults' \in Nat /\ DOMAIN noted' = Refreshers
      BY <1>1, <1>3 DEF Goto, Succeed, Registered
  <2>2. pc'[r] = "write"
      BY <2>1 DEF Registered, Served, Types, Processes
  <2>3. Settling(r)'
      BY <2>2 DEF Settling, Registering
  <2> QED BY <1>1, <2>1, <2>3, AloneSettles
<1> QED BY <1>2, <1>3 DEF Download

LEMMA WriteArtifactSettles ==
    ASSUME Registered, Served', NEW r \in Refreshers, WriteArtifact(r) PROVE Registered'
<1>1. pc[r] = "write" /\ UNCHANGED turns
    BY DEF WriteArtifact
<1>2. CASE Leave(r) /\ Fail
    BY <1>1, <1>2, LeaveSettles
<1>3. CASE /\ at' = [at EXCEPT ![r] = IF Finished(r) THEN 1 ELSE @ + 1]
           /\ Goto(r, IF Finished(r) THEN "check" ELSE "download")
           /\ UNCHANGED <<batch, got, noted>> /\ Succeed
  <2>1. PICK step \in {"check", "download"} :
            pc' = [pc EXCEPT ![r] = step] /\ (step = "check" => at' = [at EXCEPT ![r] = 1])
      BY <1>3 DEF Goto
  <2>2. faults' \in Nat /\ DOMAIN noted' = Refreshers
      BY <1>3 DEF Succeed, Registered
  <2>3. pc'[r] = step /\ (step = "check" => at'[r] = 1)
      BY <2>1 DEF Registered, Served, Types, Processes
  <2>4. Settling(r)'
      BY <2>3 DEF Settling, Registering
  <2> QED BY <1>1, <2>1, <2>2, <2>4, AloneSettles
<1> QED BY <1>2, <1>3 DEF WriteArtifact

LEMMA CheckSettles ==
    ASSUME Registered, Served', NEW r \in Refreshers, Check(r) PROVE Registered'
<1>1. pc[r] = "check" /\ UNCHANGED <<artifacts, file, unsettled, turns>> /\ Succeed
    BY DEF Check, cacheVars
<1>2. CASE Leave(r)
    BY <1>1, <1>2, LeaveSettles
<1>3. CASE file[Path(r)] = Reported(r) /\ Goto(r, "register") /\ UNCHANGED refreshVars
  <2>1. pc' = [pc EXCEPT ![r] = "register"] /\ UNCHANGED <<batch, got, at, noted>>
      BY <1>3 DEF Goto, refreshVars
  <2>2. faults' \in Nat /\ DOMAIN noted' = Refreshers
      BY <1>1, <2>1 DEF Succeed, Registered
  <2>3. pc'[r] = "register"
      BY <2>1 DEF Registered, Served, Types, Processes
  <2>4. ASSUME turns PROVE Settling(r)'
    <3>1. \A i \in 1..(at[r] - 1) : Done(r, i)
        BY <1>1, <2>4 DEF Registered, Settling, Registering
    <3>2. \A i \in 1..(at'[r] - 1) : Done(r, i)'
        BY <1>1, <2>1, <3>1 DEF Done
    <3>3. (file[Path(r)] = Reported(r))'
        BY <1>1, <1>3, <2>1 DEF Path, Ref, Reported
    <3> QED BY <2>3, <3>2, <3>3 DEF Settling
  <2> QED BY <1>1, <2>1, <2>2, <2>4, AloneSettles
<1> QED BY <1>2, <1>3 DEF Check, Advance

LEMMA RegisterSettles ==
    ASSUME Registered, Served', NEW r \in Refreshers, Register(r) PROVE Registered'
<1>1. pc[r] = "register" /\ UNCHANGED <<artifacts, file, turns>>
    BY DEF Register
<1>2. CASE Leave(r) /\ Fail
    BY <1>1, <1>2, LeaveSettles
<1>3. CASE /\ unsettled' = unsettled \ {Path(r)} /\ Goto(r, "note") /\ UNCHANGED refreshVars /\ Succeed
  <2>1. pc' = [pc EXCEPT ![r] = "note"] /\ UNCHANGED <<batch, got, at, noted>>
      BY <1>3 DEF Goto, refreshVars
  <2>2. faults' \in Nat /\ DOMAIN noted' = Refreshers
      BY <1>3, <2>1 DEF Succeed, Registered
  <2>3. pc'[r] = "note"
      BY <2>1 DEF Registered, Served, Types, Processes
  <2>4. ASSUME turns PROVE Settling(r)'
    <3>1. (\A i \in 1..(at[r] - 1) : Done(r, i)) /\ file[Path(r)] = Reported(r)
        BY <1>1, <2>4 DEF Registered, Settling, Registering
    <3>2. \A i \in 1..(at'[r] - 1) : Done(r, i)'
        BY <1>1, <1>3, <2>1, <3>1 DEF Done
    <3>3. (file[Path(r)] = Reported(r) /\ Path(r) \notin unsettled)'
        BY <1>1, <1>3, <2>1, <3>1 DEF Path, Ref, Reported
    <3> QED BY <2>3, <3>2, <3>3 DEF Settling
  <2> QED BY <1>1, <2>1, <2>2, <2>4, AloneSettles
<1> QED BY <1>2, <1>3 DEF Register, Advance

LEMMA NoteSettles ==
    ASSUME Registered, Served', NEW r \in Refreshers, Note(r) PROVE Registered'
<1>1. /\ pc[r] = "note" /\ UNCHANGED <<artifacts, file, unsettled, turns, batch, got, at>> /\ Succeed
      /\ noted' = [noted EXCEPT ![r] = file[Path(r)]] /\ pc' = [pc EXCEPT ![r] = "record"]
    BY DEF Note, cacheVars, Goto
<1>2. faults' \in Nat /\ DOMAIN noted' = Refreshers
    BY <1>1 DEF Succeed, Registered
<1>3. pc'[r] = "record" /\ noted'[r] = file[Path(r)]
    BY <1>1 DEF Registered, Served, Types, Processes
<1>4. ASSUME turns PROVE Settling(r)'
  <2>1. (\A i \in 1..(at[r] - 1) : Done(r, i)) /\ file[Path(r)] = Reported(r) /\ Path(r) \notin unsettled
      BY <1>1, <1>4 DEF Registered, Settling, Registering
  <2>2. \A i \in 1..(at'[r] - 1) : Done(r, i)'
      BY <1>1, <2>1 DEF Done
  <2>3. (file[Path(r)] = Reported(r) /\ Path(r) \notin unsettled /\ noted[r] = Reported(r))'
      BY <1>1, <1>3, <2>1 DEF Path, Ref, Reported
  <2> QED BY <2>2, <2>3 DEF Settling
<1> QED BY <1>1, <1>2, <1>4, AloneSettles

\* The reference that is recorded is done, and those before it stay so: one
\* that names the same file has the same document.
LEMMA RecordIsDone ==
    ASSUME Registered, turns, NEW r \in Refreshers, pc[r] = "record",
           artifacts' = Upsert(artifacts, {Ref(r)}, Artifact(r)), UNCHANGED <<file, unsettled>>,
           NEW i \in 1..at[r]
    PROVE  LET ref == batch[r][i] IN
           /\ ArtifactPath[ref] \notin unsettled'
           /\ ref \in DOMAIN artifacts' /\ artifacts'[ref] = [data |-> got[r][i].data, claim |-> got[r][i].data]
           /\ file'[ArtifactPath[ref]] = got[r][i].data
<1>1. /\ \A j \in 1..(at[r] - 1) : Done(r, j)
      /\ file[Path(r)] = Reported(r) /\ Path(r) \notin unsettled /\ noted[r] = Reported(r)
    BY DEF Registered, Settling, Registering
<1>2. at[r] \in Nat
    BY DEF Registered, Served, Types
<1>3. Ref(r) \in DOMAIN artifacts' /\ artifacts'[Ref(r)] = [data |-> Reported(r), claim |-> Reported(r)]
    BY <1>1 DEF Upsert, Artifact
<1>4. CASE batch[r][i] = Ref(r)
  <2>1. got[r][i].data = Reported(r)
    <3>1. CASE i = at[r]
        BY <3>1 DEF Reported
    <3>2. CASE i # at[r]
      <4>1. i \in 1..(at[r] - 1)
          BY <1>2, <3>2
      <4>2. file[ArtifactPath[batch[r][i]]] = got[r][i].data
          BY <1>1, <4>1 DEF Done
      <4> QED BY <1>1, <1>4, <4>2 DEF Path
    <3> QED BY <3>1, <3>2
  <2> QED BY <1>1, <1>3, <1>4, <2>1 DEF Path
<1>5. CASE batch[r][i] # Ref(r)
  <2>1. i # at[r]
      BY <1>5 DEF Ref
  <2>2. i \in 1..(at[r] - 1)
      BY <1>2, <2>1
  <2>3. Done(r, i)
      BY <1>1, <2>2
  <2>4. batch[r][i] \in DOMAIN artifacts =>
            batch[r][i] \in DOMAIN artifacts' /\ artifacts'[batch[r][i]] = artifacts[batch[r][i]]
      BY <1>5 DEF Upsert
  <2> QED BY <2>3, <2>4 DEF Done
<1> QED BY <1>4, <1>5

LEMMA RecordSettles ==
    ASSUME Registered, Served', NEW r \in Refreshers, Record(r) PROVE Registered'
<1>1. pc[r] = "record" /\ UNCHANGED <<file, unsettled, turns>>
    BY DEF Record
<1>2. CASE Leave(r) /\ (Succeed \/ Fail)
    BY <1>1, <1>2, LeaveSettles
<1>3. CASE /\ artifacts' = Upsert(artifacts, {Ref(r)}, Artifact(r))
           /\ at' = [at EXCEPT ![r] = @ + 1] /\ noted' = [noted EXCEPT ![r] = Absent]
           /\ Goto(r, "check") /\ UNCHANGED <<batch, got>> /\ Succeed
  <2>1. pc' = [pc EXCEPT ![r] = "check"] /\ faults' \in Nat /\ DOMAIN noted' = Refreshers
      BY <1>3 DEF Goto, Succeed, Registered
  <2>2. pc'[r] = "check" /\ at'[r] = at[r] + 1 /\ at[r] \in Nat
      BY <1>3, <2>1 DEF Registered, Served, Types, Processes
  <2>3. ASSUME turns PROVE Settling(r)'
    <3>1. at'[r] - 1 = at[r]
        BY <2>2
    <3>2. \A i \in 1..at[r] : Done(r, i)'
        BY <1>1, <1>3, <2>3, RecordIsDone DEF Done
    <3> QED BY <2>2, <3>1, <3>2 DEF Settling
  <2> QED BY <1>1, <2>1, <2>3, AloneSettles
<1> QED BY <1>2, <1>3 DEF Record

LEMMA NextRegisters == ASSUME Registered, [Next]_vars PROVE Registered'
<1>0. Served' /\ Served /\ faults \in Nat
    BY NextKeeps DEF Registered
<1>1. ASSUME NEW c \in Fetchers, FetchStep(c) PROVE Registered'
  <2>1. UNCHANGED <<artifacts, file, unsettled, refreshVars, turns>>
      BY <1>1 DEF FetchStep, StartFetch, Load, Read, Touch, Get, Store, Keep, KeepButRows, cacheVars
  <2>2. \E step : pc' = [pc EXCEPT ![c] = step]
      BY <1>1 DEF FetchStep, StartFetch, Load, Read, Touch, Get, Store, Give, Refuse, Reply, Goto, Fallback, Retry
  <2>3. \A r \in Refreshers : pc'[r] = pc[r]
      BY <1>0, <2>2, ProcessAssumption DEF Served, Types, Processes
  <2>4. faults' \in Nat
      BY <1>0, <1>1 DEF FetchStep, StartFetch, Load, Read, Touch, Get, Store, Succeed, Fail
  <2> QED BY <1>0, <2>1, <2>3, <2>4, OthersSettle
<1>2. ASSUME NEW r \in Refreshers, StartRefresh(r) PROVE Registered'
  <2>1. /\ pc' = [pc EXCEPT ![r] = "download"] /\ (turns => \A x \in Refreshers : pc[x] = "idle")
        /\ UNCHANGED <<turns, noted, faults>>
      BY <1>2 DEF StartRefresh, Goto, Succeed
  <2>2. ASSUME turns PROVE Alone' /\ \A x \in Refreshers : pc'[x] \in {"idle", "download"}
      BY <1>0, <2>1, <2>2 DEF Served, Types, Processes, Alone
  <2> QED BY <1>0, <2>1, <2>2 DEF Registered, Settling, Registering
<1>3. ASSUME NEW r \in Refreshers, Crash(r) PROVE Registered'
    BY <1>0, <1>3, LeaveSettles DEF Crash
<1>4. ASSUME NEW u \in Origins, Publish(u) PROVE Registered'
    BY <1>0, <1>4, OthersSettle DEF Publish, Change, cacheVars
<1>5. CASE UNCHANGED vars
    BY <1>0, <1>5, OthersSettle DEF vars, cacheVars
<1>6. CASE Redirect
    BY <1>0, <1>6, OthersSettle DEF Redirect, Change, cacheVars
<1> QED BY <1>0, <1>1, <1>2, <1>3, <1>4, <1>5, <1>6, DownloadSettles, WriteArtifactSettles, CheckSettles,
           RegisterSettles, NoteSettles, RecordSettles DEF Next, RefreshStep

\* In turns a refresh that reports success has registered every file it wrote,
\* with the digest of what it downloaded, for any batches, even ones that name
\* a reference or a file twice.
THEOREM RegisteredCorrect == Spec => RefreshIsRegistered
<1> DEFINE Step == \A r \in Refreshers :
              turns /\ pc[r] = "record" /\ pc'[r] = "idle" /\ faults' = faults =>
                  \A i \in DOMAIN batch[r] :
                      /\ ArtifactPath[batch[r][i]] \notin unsettled'
                      /\ artifacts'[batch[r][i]] = [data |-> got[r][i].data, claim |-> got[r][i].data]
<1>1. Registered /\ [Next]_vars => [Step]_vars
  <2> SUFFICES ASSUME Registered, Next, NEW r \in Refreshers,
                      turns, pc[r] = "record", pc'[r] = "idle", faults' = faults,
                      NEW i \in DOMAIN batch[r]
               PROVE  /\ ArtifactPath[batch[r][i]] \notin unsettled'
                      /\ artifacts'[batch[r][i]] = [data |-> got[r][i].data, claim |-> got[r][i].data]
      OBVIOUS
  <2>1. Served /\ ~Fail
      BY DEF Registered, Fail
  <2>2. \A c \in Fetchers : ~FetchStep(c)
    <3> SUFFICES ASSUME NEW c \in Fetchers, FetchStep(c) PROVE FALSE
        OBVIOUS
    <3>1. \E step : pc' = [pc EXCEPT ![c] = step]
        BY DEF FetchStep, StartFetch, Load, Read, Touch, Get, Store, Give, Refuse, Reply, Goto, Fallback, Retry
    <3> QED BY <2>1, <3>1, ProcessAssumption DEF Served, Types, Processes
  <2>3. ~Redirect /\ \A u \in Origins : ~Publish(u)
      BY DEF Publish, Redirect, Change
  <2>4. \A x \in Refreshers : ~Crash(x)
      BY <2>1 DEF Crash
  <2>5. PICK x \in Refreshers : RefreshStep(x)
      BY <2>2, <2>3, <2>4 DEF Next
  <2>6. \E step : pc' = [pc EXCEPT ![x] = step]
      BY <2>5 DEF RefreshStep, StartRefresh, Download, WriteArtifact, Check, Register, Note, Record, Leave, Advance, Goto
  <2>7. x = r
      BY <2>1, <2>6 DEF Served, Types, Processes
  <2>8. Record(r)
      BY <2>5, <2>7 DEF RefreshStep, StartRefresh, Download, WriteArtifact, Check, Register, Note
  <2>9. /\ artifacts' = Upsert(artifacts, {Ref(r)}, Artifact(r)) /\ UNCHANGED <<file, unsettled>>
        /\ Finished(r) \/ Goto(r, "check")
      BY <2>1, <2>8 DEF Record
  <2>10. Finished(r)
      BY <2>1, <2>9 DEF Goto, Served, Types, Processes
  <2>11. i \in 1..at[r]
    <3>1. batch[r] \in Seq(Refs)
        BY <2>1 DEF Served, Types
    <3> QED BY <2>10, <3>1 DEF Finished
  <2> QED BY <2>9, <2>11, RecordIsDone
<1>2. Spec => []Registered
    BY InitRegistered, NextRegisters, PTL DEF Spec
<1> QED BY <1>1, <1>2, PTL DEF Spec, RefreshIsRegistered

(***************************************************************************)
(* A cache that cannot be trusted is repaired: the calls that go to the    *)
(* network return what was served since they began and leave it cached.    *)
(***************************************************************************)
Recent ==
    /\ \A c \in Fetchers : pc[c] # "idle" => origin[final[fetch[c].url]] \in since[c]
    /\ \A c \in Fetchers : pc[c] = "store" => fetch[c].data \in since[c]

LEMMA NextIsRecent == ASSUME Served, Recent, [Next]_vars PROVE Recent'
<1> USE DEF Recent
<1> DEFINE Aims(c, step, call, h) ==
              /\ pc' = [pc EXCEPT ![c] = step] /\ fetch' = [fetch EXCEPT ![c] = call]
              /\ since' = [since EXCEPT ![c] = h]
              /\ step # "idle" => origin[final[call.url]] \in h
              /\ step = "store" => call.data \in h
<1>1. ASSUME NEW c \in Fetchers, FetchStep(c) PROVE Recent'
  <2>1. UNCHANGED <<final, origin>>
      BY <1>1 DEF FetchStep, StartFetch, Load, Read, Touch, Get, Store, Keep, KeepButRows, serverVars
  <2>2. \E step, call, h : Aims(c, step, call, h)
    <3> DEFINE Aim == \E step, call, h : Aims(c, step, call, h)
    <3>0. fetch = [fetch EXCEPT ![c] = fetch[c]] /\ since = [since EXCEPT ![c] = since[c]] /\ fetch[c] \in Call
        BY DEF Served, Types
    <3>1. ASSUME NEW r, Reply(c, r) PROVE Aim
      <4>1. Aims(c, "idle", NoFetch, {})
          BY <3>1 DEF Reply
      <4> QED BY <4>1
    <3>2. ASSUME NEW e, Fallback(c, e), pc[c] # "idle" PROVE Aim
      <4>1. CASE Refuse(c, e)
          BY <3>1, <4>1 DEF Refuse
      <4>2. CASE Retry(c)
        <5> DEFINE call == Asked(fetch[c].url, fetch[c].mode)
        <5>1. pc' = [pc EXCEPT ![c] = "get"] /\ fetch' = [fetch EXCEPT ![c] = call] /\ UNCHANGED since
            BY <4>2 DEF Retry, Goto
        <5>2. call.url = fetch[c].url
            BY DEF Asked
        <5> HIDE DEF call
        <5>3. Aims(c, "get", call, since[c])
            BY <3>0, <3>2, <5>1, <5>2
        <5> QED BY <5>3
      <4> QED BY <3>2, <4>1, <4>2 DEF Fallback
    <3>3. CASE StartFetch(c)
      <4>1. PICK u \in Requested, mode \in Modes :
              /\ fetch' = [fetch EXCEPT ![c] = Asked(u, mode)]
              /\ pc' = [pc EXCEPT ![c] = IF mode \in {"read-write", "offline"} THEN "load" ELSE "get"]
              /\ since' = [since EXCEPT ![c] = {origin[final[u]]}]
          BY <3>3 DEF StartFetch
      <4> DEFINE call == Asked(u, mode)
                 step == IF mode \in {"read-write", "offline"} THEN "load" ELSE "get"
      <4>2. call.url = u /\ step # "store"
          BY DEF Asked
      <4>3. fetch' = [fetch EXCEPT ![c] = call] /\ pc' = [pc EXCEPT ![c] = step]
          BY <4>1
      <4> HIDE DEF call, step
      <4>4. Aims(c, step, call, {origin[final[u]]})
          BY <4>1, <4>2, <4>3
      <4> QED BY <4>4
    <3>4. CASE Load(c)
      <4>1. CASE /\ fetch' = [fetch EXCEPT ![c].place = rows[fetch[c].url].place, ![c].data = rows[fetch[c].url].data]
                 /\ Goto(c, "read")
        <5> DEFINE call == [fetch[c] EXCEPT !.place = rows[fetch[c].url].place, !.data = rows[fetch[c].url].data]
        <5>1. call.url = fetch[c].url /\ fetch' = [fetch EXCEPT ![c] = call]
            BY <3>0, <4>1 DEF Call, Served, Types
        <5> HIDE DEF call
        <5>2. Aims(c, "read", call, since[c])
            BY <3>0, <3>4, <4>1, <5>1 DEF Load, Goto
        <5> QED BY <5>2
      <4> QED BY <3>1, <3>2, <3>4, <4>1 DEF Load, Refuse
    <3>5. CASE Read(c)
      <4>1. CASE Goto(c, "touch") /\ UNCHANGED fetch
        <5>1. Aims(c, "touch", fetch[c], since[c])
            BY <3>0, <3>5, <4>1 DEF Read, Goto
        <5> QED BY <5>1
      <4> QED BY <3>2, <3>5, <4>1 DEF Read
    <3>6. CASE Touch(c)
        BY <3>1, <3>2, <3>6 DEF Touch, Refuse, Give
    <3>7. CASE Get(c)
      <4> DEFINE end == final[fetch[c].url]
                 call == [fetch[c] EXCEPT !.data = origin[end], !.final = end]
      <4>1. CASE Goto(c, "store") /\ fetch' = [fetch EXCEPT ![c].data = origin[end], ![c].final = end]
        <5>1. call.url = fetch[c].url /\ call.data = origin[end] /\ fetch' = [fetch EXCEPT ![c] = call]
            BY <3>0, <4>1 DEF Call, Served, Types
        <5>2. pc[c] # "idle"
            BY <3>7 DEF Get
        <5> HIDE DEF call
        <5>3. Aims(c, "store", call, since[c])
            BY <3>0, <4>1, <5>1, <5>2 DEF Goto
        <5> QED BY <5>3
      <4> QED BY <3>1, <3>7, <4>1 DEF Get, Refuse, Give
    <3>8. CASE Store(c)
        BY <3>1, <3>8 DEF Store, Refuse, Give
    <3> QED BY <1>1, <3>3, <3>4, <3>5, <3>6, <3>7, <3>8 DEF FetchStep
  <2>3. PICK step, call, h : Aims(c, step, call, h)
      BY <2>2
  <2> QED BY <2>1, <2>3 DEF Served, Types, Processes
<1>2. ASSUME Change, final' \in Redirects PROVE Recent'
  <2>1. /\ UNCHANGED <<pc, fetch>>
        /\ \A c \in Fetchers : since'[c] =
              since[c] \cup (IF pc[c] = "idle" THEN {} ELSE {origin'[final'[fetch[c].url]]})
      BY <1>2 DEF Change
  <2> QED BY <2>1
<1>3. CASE Redirect \/ \E u \in Origins : Publish(u)
    BY <1>2, <1>3 DEF Redirect, Publish, Served, Types
<1>4. ASSUME NEW r \in Refreshers, RefreshStep(r) \/ Crash(r) PROVE Recent'
  <2>1. UNCHANGED <<final, origin, fetch, since>> /\ \E step : pc' = [pc EXCEPT ![r] = step]
      BY <1>4 DEF RefreshStep, Crash, StartRefresh, Download, WriteArtifact, Check, Register, Note,
         Record, Leave, Advance, Goto, serverVars
  <2>2. \A c \in Fetchers : pc'[c] = pc[c]
      BY <2>1, ProcessAssumption DEF Served, Types, Processes
  <2> QED BY <2>1, <2>2
<1>5. CASE UNCHANGED vars
    BY <1>5 DEF vars, serverVars
<1> QED BY <1>1, <1>3, <1>4, <1>5 DEF Next

\* What a call replies.
LEMMA ReplyIsRepaired ==
    ASSUME Served, Recent, NEW c \in Fetchers, FetchStep(c), Returns(c)
    PROVE  Repaired(c)
<1>1. ASSUME NEW r, Reply(c, r) PROVE reply'[c] = r
    BY <1>1 DEF Reply, Served, Types
<1>2. ASSUME NEW error, Refuse(c, error), error \in {"uncached", "integrity"} => fetch[c].mode = "offline"
      PROVE  Repaired(c)
  <2>1. reply'[c] = [mode |-> fetch[c].mode, error |-> error]
      BY <1>1, <1>2 DEF Refuse
  <2> QED BY <1>2, <2>1 DEF Repaired
<1>3. ASSUME NEW d, Give(c, d) PROVE reply'[c] = [url |-> fetch[c].url, data |-> d]
    BY <1>1, <1>3 DEF Give
<1>4. ASSUME NEW step, step # "idle", Goto(c, step) PROVE FALSE
    BY <1>4 DEF Goto, Returns, Served, Types, Processes
<1>5. ASSUME NEW error, Fallback(c, error) PROVE Repaired(c)
  <2>1. CASE fetch[c].mode = "offline" /\ Refuse(c, error)
      BY <1>2, <2>1
  <2>2. CASE Retry(c)
      BY <1>4, <2>2 DEF Retry
  <2> QED BY <1>5, <2>1, <2>2 DEF Fallback
<1>6. CASE Load(c)
    BY <1>2, <1>4, <1>5, <1>6 DEF Load
<1>7. CASE Read(c)
    BY <1>4, <1>5, <1>7 DEF Read
<1>8. CASE Touch(c)
  <2>1. CASE Give(c, fetch[c].data)
    <3>1. reply'[c] = [url |-> fetch[c].url, data |-> fetch[c].data] /\ pc[c] = "touch"
        BY <1>3, <1>8, <2>1 DEF Touch
    <3> QED BY <3>1 DEF Repaired
  <2> QED BY <1>2, <1>5, <1>8, <2>1 DEF Touch
<1>9. CASE Get(c)
  <2> DEFINE d == origin[final[fetch[c].url]]
  <2>1. CASE fetch[c].mode = "bypass" /\ Give(c, d)
    <3>1. d \in since[c]
        BY <1>9 DEF Get, Recent
    <3>2. reply'[c] = [url |-> fetch[c].url, data |-> d]
        BY <1>3, <2>1
    <3> HIDE DEF d
    <3> QED BY <2>1, <3>1, <3>2 DEF Repaired
  <2> QED BY <1>2, <1>4, <1>9, <2>1 DEF Get
<1>10. CASE Store(c)
  <2>1. CASE StoreSpec(fetch[c].url, fetch[c].final, fetch[c].data, Inline) /\ Give(c, fetch[c].data)
    <3>1. reply'[c] = [url |-> fetch[c].url, data |-> fetch[c].data]
        BY <1>3, <2>1
    <3>2. fetch[c].data \in since[c]
        BY <1>10 DEF Store, Recent
    <3>3. ASSUME NEW u \in {fetch[c].url, fetch[c].final} PROVE Cached(u)' = {fetch[c].data}
      <4>1. rows'[u] = [data |-> fetch[c].data, place |-> Inline, original |-> fetch[c].url, final |-> fetch[c].final]
          BY <2>1 DEF StoreSpec, Upsert
      <4>2. u \in DOMAIN rows'
          BY <2>1 DEF StoreSpec, Upsert
      <4>3. Cached(u)' = {rows'[u].data} \cap
                {IF rows'[u].place = Inline THEN rows'[u].data ELSE file'[rows'[u].place]}
          BY <4>2 DEF Cached, Document
      <4>4. rows'[u].data = fetch[c].data /\ rows'[u].place = Inline
          BY <4>1
      <4> QED BY <4>3, <4>4
    <3> QED BY <3>1, <3>2, <3>3 DEF Repaired
  <2> QED BY <1>2, <1>10, <2>1 DEF Store
<1>11. CASE StartFetch(c)
    BY <1>11 DEF StartFetch, Returns
<1> QED BY <1>6, <1>7, <1>8, <1>9, <1>10, <1>11 DEF FetchStep

\* A row the retention took, a digest that differs, a document Import would
\* not accept: a caller who may use the network gets a document served since
\* his call began, now cached for his URL, or the error of the download or of
\* the store, never that of the cache; for any number of callers and
\* refreshes, and any changes on the servers.
THEOREM RepairCorrect == Spec => IntegrityIsRepaired
<1> DEFINE Step == \A c \in Fetchers : Returns(c) => Repaired(c)
<1>1. Init => Served /\ Recent
    BY InitServed, ProcessAssumption DEF Init, Recent, Processes
<1>2. Served /\ Recent /\ [Next]_vars => Served' /\ Recent'
    BY NextKeeps, NextIsRecent
<1>3. Served /\ Recent /\ [Next]_vars => [Step]_vars
  <2> SUFFICES ASSUME Served, Recent, Next, NEW c \in Fetchers, Returns(c) PROVE Repaired(c)
      OBVIOUS
  <2>1. ASSUME NEW x \in Fetchers, FetchStep(x) PROVE x = c
    <3>1. \E step : pc' = [pc EXCEPT ![x] = step]
        BY <2>1 DEF FetchStep, StartFetch, Load, Read, Touch, Get, Store, Give, Refuse, Reply, Goto, Fallback, Retry
    <3> QED BY <3>1 DEF Returns, Served, Types, Processes
  <2>2. ASSUME NEW r \in Refreshers, RefreshStep(r) \/ Crash(r) PROVE FALSE
    <3>1. \E step : pc' = [pc EXCEPT ![r] = step]
        BY <2>2 DEF RefreshStep, Crash, StartRefresh, Download, WriteArtifact, Check, Register, Note,
           Record, Leave, Advance, Goto
    <3> QED BY <3>1, ProcessAssumption DEF Returns, Served, Types, Processes
  <2>3. CASE Redirect \/ \E u \in Origins : Publish(u)
      BY <2>3 DEF Redirect, Publish, Change, Returns
  <2> QED BY <2>1, <2>2, <2>3, ReplyIsRepaired DEF Next
<1> QED BY <1>1, <1>2, <1>3, PTL DEF Spec, IntegrityIsRepaired
====
