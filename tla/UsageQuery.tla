----------------------------- MODULE UsageQuery -----------------------------
(***************************************************************************)
(* The usage ledger as its readers see it: single records stamped before   *)
(* their transaction (vaulltcore-metering), the filtered and paged reads,  *)
(* exports and summaries over it (vaulltcore-usage-governance), and the    *)
(* routes of the control plane that serve them page by page.               *)
(*                                                                         *)
(* A page, an export and a summary are read by statements that nothing     *)
(* interrupts; between two pages of a client anything may be recorded.     *)
(* Event ids are drawn at random, so any unused one may be the next.       *)
(***************************************************************************)
EXTENDS Integers, Sequences, FiniteSets, SequencesExt

CONSTANTS
  UsageInputs,    \* what may be recorded
  UsageQueries,   \* what may be asked
  Recorders,      \* record() calls that may overlap
  UsageReaders,   \* clients that page through the ledger
  MaxQueryLimit,  \* MAX_QUERY_LIMIT
  DefaultLimit,   \* defaultLimit of the query service
  MaxPages,       \* maxPages of an export
  MaxRange,       \* maxRangeMs
  MaxUsageRows,   \* bound on the rows recorded
  MaxUsageTime    \* bound on the clock

(* Limits are whole numbers: a LIMIT takes no others.                      *)
ASSUME UsageQueryAssumption ==
  /\ MaxQueryLimit \in Nat \ {0} /\ DefaultLimit \in Nat \ {0}
  /\ MaxUsageRows \in Nat /\ MaxUsageTime \in Nat
  /\ \A q \in UsageQueries : q.limit \in Int

VARIABLES
  usageRows,   \* usage_events
  usageClock,  \* milliseconds
  recording,   \* the record() calls in flight
  reading      \* the walks over the ledger

usageVars == <<usageRows, usageClock, recording, reading>>

Absent == -2
Anything == "any"
RowIds == 1..MaxUsageRows

UnitForKind ==
  [model_tokens |-> "tokens", model_input_tokens |-> "tokens",
   model_output_tokens |-> "tokens", model_reasoning_tokens |-> "tokens",
   model_request |-> "request", provider_api_request |-> "request",
   tool_call |-> "call", tool_invocation |-> "call", shell_execution |-> "call",
   execution_duration |-> "ms", runtime_duration |-> "ms",
   environment_allocation |-> "allocation", snapshot_storage |-> "bytes"]

(* A known kind, a quantity that is not negative, and the kind's own unit  *)
(* when one is given.                                                      *)
ValidUsageInput(i) ==
  /\ i.quantity >= 0
  /\ i.kind \in DOMAIN UnitForKind
  /\ i.unit \in {Anything, UnitForKind[i.kind]}

UsageRow(i, id, at) ==
  [id |-> id, tenant |-> i.tenant, job |-> i.job, kind |-> i.kind,
   quantity |-> i.quantity, dedup |-> i.dedup, provider |-> i.provider, at |-> at]

(* The accounting identity, unique in the table.                           *)
SameFact(r, i) ==
  r.tenant = i.tenant /\ r.job = i.job /\ r.kind = i.kind /\ r.dedup = i.dedup

IdleRecorder == [pc |-> "idle", input |-> <<>>, now |-> 0]
IdleReader == [pc |-> "idle", query |-> <<>>, cursor |-> <<>>, got |-> <<>>, base |-> {}]

UsageQueryTypeOK ==
  /\ usageClock \in 0..MaxUsageTime
  /\ \A r \in usageRows : r.id \in RowIds /\ r.at \in 0..usageClock /\ r.quantity \in Nat
  /\ \A w \in Recorders : recording[w].pc \in {"idle", "stamped"}
  /\ \A d \in UsageReaders :
       /\ reading[d].pc \in {"idle", "walking", "done", "refused"}
       /\ ToSet(reading[d].got) \subseteq usageRows

UsageQueryInit ==
  /\ usageRows = {}
  /\ usageClock = 1
  /\ recording = [w \in Recorders |-> IdleRecorder]
  /\ reading = [d \in UsageReaders |-> IdleReader]

-----------------------------------------------------------------------------
(* Recording.                                                              *)
UsageTick ==
  /\ usageClock < MaxUsageTime
  /\ usageClock' = usageClock + 1
  /\ UNCHANGED <<usageRows, recording, reading>>

(* record: the time is read before the transaction begins, which may have  *)
(* to wait for another connection.                                         *)
StampUsage(w, i) ==
  /\ recording[w].pc = "idle"
  /\ ValidUsageInput(i)
  /\ recording' = [recording EXCEPT ![w] = [pc |-> "stamped", input |-> i, now |-> usageClock]]
  /\ UNCHANGED <<usageRows, usageClock, reading>>

(* ON CONFLICT DO NOTHING: the first delivery of a fact stays.             *)
InsertUsage(w) ==
  /\ recording[w].pc = "stamped"
  /\ LET i == recording[w].input IN
     \/ /\ \E r \in usageRows : SameFact(r, i)
        /\ UNCHANGED usageRows
     \/ /\ ~\E r \in usageRows : SameFact(r, i)
        /\ \E id \in RowIds \ {r.id : r \in usageRows} :
             usageRows' = usageRows \cup {UsageRow(i, id, recording[w].now)}
  /\ recording' = [recording EXCEPT ![w] = IdleRecorder]
  /\ UNCHANGED <<usageClock, reading>>

-----------------------------------------------------------------------------
(* Queries.                                                                *)

(* A limit outside 1..MAX_QUERY_LIMIT is refused with 422.                 *)
LimitAllowed(q) == q.limit = Absent \/ (q.limit >= 1 /\ q.limit <= MaxQueryLimit)

(* The tenant is the principal's; runId becomes a field of the filter that *)
(* the store never reads, its own name for it being jobId.                 *)
ParseFilter(q) ==
  [tenant |-> q.tenant, job |-> Anything, kind |-> q.kind, provider |-> q.provider,
   from |-> q.from, to |-> q.to]

(* assertRangeBounded: a span is only bounded when both ends are given.    *)
RangeAllowed(f) ==
  /\ f.from # Absent /\ f.to # Absent => f.to - f.from \in 0..MaxRange
  /\ f.from = Absent \/ f.from >= 0

(* A bound of 0 is falsy and therefore no bound.                           *)
Given(bound) == bound \notin {Absent, 0}

MatchesButKind(r, f) ==
  /\ r.tenant = f.tenant
  /\ f.job \in {Anything, r.job}
  /\ f.provider \in {Anything, r.provider}
  /\ Given(f.from) => r.at >= f.from
  /\ Given(f.to) => r.at <= f.to

MatchesUsage(r, f) == MatchesButKind(r, f) /\ f.kind \in {Anything, r.kind}

Earlier(r, s) == r.at < s.at \/ (r.at = s.at /\ r.id < s.id)

(* ORDER BY recorded_at, event_id: the i-th row has i of them up to it.    *)
ByTime(rows) ==
  [i \in 1..Cardinality(rows) |->
     CHOOSE r \in rows : Cardinality({s \in rows : s = r \/ Earlier(s, r)}) = i]

(* Mutant: the cursor remembers the time only.                             *)
AfterTime(r, cursor) == cursor = <<>> \/ r.at > cursor[1].at

(* (recorded_at, event_id) > (?, ?)                                        *)
AfterCursor(r, cursor) == cursor = <<>> \/ Earlier(cursor[1], r)

(* One row more than the page is fetched, to know whether there is more.   *)
FetchLimit(limit) == Min({limit, MaxQueryLimit}) + 1

(* queryEvents.                                                            *)
QueryEvents(f, cursor, limit) ==
  LET cap == Min({limit, MaxQueryLimit})
      rows == ByTime({r \in usageRows : MatchesUsage(r, f) /\ AfterCursor(r, cursor)})
      fetched == SubSeq(rows, 1, Min({Len(rows), FetchLimit(limit)}))
      items == SubSeq(fetched, 1, Min({Len(fetched), cap}))
      more == Len(fetched) > cap
  IN [items |-> items, next |-> IF more THEN <<Last(items)>> ELSE <<>>]

(* queryAll: pages until there is none left or maxPages were read.         *)
QueryAll(f) ==
  LET walk[n \in 0..MaxPages] ==
        IF n = 0 THEN [out |-> <<>>, cursor |-> <<>>, over |-> FALSE]
        ELSE IF walk[n - 1].over THEN walk[n - 1]
        ELSE LET page == QueryEvents(f, walk[n - 1].cursor, DefaultLimit)
             IN [out |-> walk[n - 1].out \o page.items, cursor |-> page.next,
                 over |-> page.next = <<>>]
  IN walk[MaxPages].out

Quantity(rows) == MapThenSumSet(LAMBDA r : r.quantity, rows)

TokenKinds == {"model_tokens", "model_input_tokens", "model_output_tokens", "model_reasoning_tokens"}

(* aggregateRows: the kinds that have a column; the others count nowhere.  *)
AggregateRows(rows) ==
  LET of(kinds) == Quantity({r \in rows : r.kind \in kinds}) IN
    [inputTokens |-> of({"model_input_tokens"}),
     outputTokens |-> of({"model_output_tokens"}),
     reasoningTokens |-> of({"model_reasoning_tokens"}),
     totalTokens |-> of(TokenKinds),
     steps |-> of({"model_request"}),
     toolCalls |-> of({"tool_call", "tool_invocation"}),
     durationMs |-> of({"execution_duration", "runtime_duration"})]

AggregateFiltered(f) == AggregateRows({r \in usageRows : MatchesUsage(r, f)})

(* breakdownByKind: alone among the reads, it does not look at f.kind.     *)
BreakdownByKind(f) ==
  LET rows == {r \in usageRows : MatchesButKind(r, f)} IN
    [k \in {r.kind : r \in rows} |->
       LET mine == {r \in rows : r.kind = k}
       IN [quantity |-> Quantity(mine), count |-> Cardinality(mine)]]

UsageSummary(f) ==
  LET breakdown == BreakdownByKind(f) IN
    [aggregate |-> AggregateFiltered(f), breakdown |-> breakdown,
     totalEvents |-> MapThenSumSet(LAMBDA k : breakdown[k].count, DOMAIN breakdown)]

-----------------------------------------------------------------------------
(* A client that follows nextCursor.                                       *)
QueryLimit(q) == IF q.limit = Absent THEN DefaultLimit ELSE q.limit
QueryAllowed(q) == LimitAllowed(q) /\ RangeAllowed(ParseFilter(q))

WithPage(d, reader) ==
  LET q == reader.query
      page == QueryEvents(ParseFilter(q), reader.cursor, QueryLimit(q))
  IN reading' = [reading EXCEPT ![d] =
       [reader EXCEPT !.got = @ \o page.items, !.cursor = page.next,
                      !.pc = IF page.next = <<>> THEN "done" ELSE "walking"]]

GetUsage(d, q) ==
  /\ reading[d].pc = "idle"
  /\ LET asking == [IdleReader EXCEPT !.query = q, !.base = usageRows] IN
     \/ QueryAllowed(q) /\ WithPage(d, asking)
     \/ ~QueryAllowed(q) /\ reading' = [reading EXCEPT ![d] = [asking EXCEPT !.pc = "refused"]]
  /\ UNCHANGED <<usageRows, usageClock, recording>>

GetNextPage(d) ==
  /\ reading[d].pc = "walking"
  /\ WithPage(d, reading[d])
  /\ UNCHANGED <<usageRows, usageClock, recording>>

UsageQueryNext ==
  \/ UsageTick
  \/ \E w \in Recorders : InsertUsage(w) \/ \E i \in UsageInputs : StampUsage(w, i)
  \/ \E d \in UsageReaders : GetNextPage(d) \/ \E q \in UsageQueries : GetUsage(d, q)

-----------------------------------------------------------------------------
(* A client that followed the cursors to the end has every row of its      *)
(* filter that was in the ledger when it asked for the first page, none of *)
(* another tenant, although rows were recorded between its pages, with     *)
(* equal and with older stamps (metering/store.ts:221-229).                *)
WalkIsComplete ==
  \A d \in UsageReaders : reading[d].pc = "done" =>
    LET f == ParseFilter(reading[d].query) IN
      /\ \A r \in reading[d].base : MatchesUsage(r, f) => r \in ToSet(reading[d].got)
      /\ \A r \in ToSet(reading[d].got) : MatchesUsage(r, f)

(* No walk returns a row twice or out of order, whatever is recorded       *)
(* before, at or behind its cursor meanwhile (metering/store.ts:221).      *)
WalkInOrderOnce ==
  \A d \in UsageReaders :
    \A m, n \in 1..Len(reading[d].got) :
      m < n => Earlier(reading[d].got[m], reading[d].got[n])

(* The paged export and the summary, two independent computations, agree   *)
(* on every filter without a kind: the export has the rows that the        *)
(* summary counts, unless maxPages cuts it, and the summed tokens are      *)
(* those of the breakdown (query-service.ts:51-77).                        *)
ExportMatchesSummary ==
  \A q \in {p \in UsageQueries : QueryAllowed(p) /\ p.kind = Anything} :
    LET f == ParseFilter(q)
        out == QueryAll(f)
        summary == UsageSummary(f)
        tokens == DOMAIN summary.breakdown \cap TokenKinds
    IN /\ Len(out) = Min({summary.totalEvents, MaxPages * DefaultLimit})
       /\ Cardinality(ToSet(out)) = Len(out)
       /\ summary.aggregate.totalTokens =
            MapThenSumSet(LAMBDA k : summary.breakdown[k].quantity, tokens)

(* Reading usage while it is recorded: walks are complete, in order and    *)
(* without repetition, and the export agrees with the summary              *)
(* (metering/store.ts, query-service.ts).                                  *)
UsageReadsRight ==
  /\ WalkIsComplete
  /\ WalkInOrderOnce
  /\ ExportMatchesSummary
=============================================================================
