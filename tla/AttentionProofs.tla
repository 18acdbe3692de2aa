----------------------------- MODULE AttentionProofs ----------------------------
(***************************************************************************)
(* Proofs about the inbox, for any ids, contents, settings and consoles,   *)
(* any surface and journal, and any number of changes and faults.          *)
(*                                                                         *)
(* The argument: between the listing of the log and the read of the        *)
(* surface only reflections are logged, so that the difference is one to   *)
(* the log as it is (Prefix).  From then on what is still wrong is owed    *)
(* (Complete), what is owed is right (Owed), and a resolution that is      *)
(* retried carries a number no event before it carries (Stamped).          *)
(* For the rows of the reflections: two passes are never at one row        *)
(* (Attended), since only the pass that found it absent goes on to it.     *)
(***************************************************************************)
EXTENDS Attention, FiniteSetTheorems, TLAPS

-------------------------------------------------------------------------------
(* Events *)

\* The events the two writers compose are events.
LEMMA EventTypes ==
  /\ \A i \in Ids, c \in AnyContent : Appeared(i, c) \in Events /\ Changed(i, c) \in Events
  /\ \A i \in Ids, c \in AnyContent, t \in Nat : Resolved(i, c, t) \in Events
  /\ \A i \in Valves : Reflected(i) \in Events
  /\ \A i \in Escalations, s \in Settings : Escalated(i, s) \in Events
  /\ \A k \in {"observed", "not_observed"}, n \in Nat : Marker(k, n) \in Events
BY DEF Events, Event, Appeared, Changed, Resolved, Reflected, Escalated, Marker

\* The markers of a log are finitely many.
LEMMA MarkersFinite ==
  ASSUME NEW s \in Seq(Events)
  PROVE  IsFiniteSet(Markers(s)) /\ MarkerCount(s) \in Nat
<1>1. IsFiniteSet(1 .. Len(s)) /\ Markers(s) \subseteq 1 .. Len(s)
  BY FS_Interval DEF Markers
<1>2. IsFiniteSet(Markers(s))
  BY <1>1, FS_Subset
<1> QED BY <1>2, FS_CardinalityType DEF MarkerCount

\* What an appended event does to the markers.
LEMMA MarkersAppend ==
  ASSUME NEW s \in Seq(Events), NEW e \in Events
  PROVE  /\ ~IsMarker(e) => /\ Markers(Append(s, e)) = Markers(s)
                            /\ MarkerCount(Append(s, e)) = MarkerCount(s)
                            /\ Down(Append(s, e)) <=> Down(s)
         /\ IsMarker(e) => /\ Markers(Append(s, e)) = Markers(s) \cup {Len(s) + 1}
                           /\ MarkerCount(Append(s, e)) = MarkerCount(s) + 1
                           /\ Down(Append(s, e)) <=> e.kind = "not_observed"
<1> DEFINE t == Append(s, e)
<1>1. /\ DOMAIN t = 1 .. Len(s) + 1 /\ DOMAIN s = 1 .. Len(s) /\ Len(s) \in Nat
      /\ t[Len(s) + 1] = e /\ \A n \in 1 .. Len(s) : t[n] = s[n]
  OBVIOUS
<1> HIDE DEF t
<1>2. ASSUME ~IsMarker(e)
      PROVE  /\ Markers(t) = Markers(s)
             /\ MarkerCount(t) = MarkerCount(s)
             /\ Down(t) <=> Down(s)
  <2>1. Markers(t) = Markers(s)
    BY <1>1, <1>2 DEF Markers
  <2>2. \A n \in Markers(s) : t[n] = s[n]
    BY <1>1 DEF Markers
  <2> QED BY <2>1, <2>2 DEF MarkerCount, Down
<1>3. ASSUME IsMarker(e)
      PROVE  /\ Markers(t) = Markers(s) \cup {Len(s) + 1}
             /\ MarkerCount(t) = MarkerCount(s) + 1
             /\ Down(t) <=> e.kind = "not_observed"
  <2>1. Markers(t) = Markers(s) \cup {Len(s) + 1}
    BY <1>1, <1>3 DEF Markers
  <2>2. Len(s) + 1 \notin Markers(s) /\ \A n \in Markers(s) : n \in 1 .. Len(s)
    BY <1>1 DEF Markers
  <2>3. MarkerCount(t) = MarkerCount(s) + 1
    BY <2>1, <2>2, MarkersFinite, FS_AddElement DEF MarkerCount
  <2>4. \A m \in Markers(t) : m <= Len(s) + 1
    BY <1>1, <2>1, <2>2
  <2>5. \A n \in Markers(t) : (\A m \in Markers(t) : m <= n) => n = Len(s) + 1
    BY <1>1, <2>1, <2>2, <2>4
  <2>6. Len(s) + 1 \in Markers(t)
    BY <2>1
  <2>7. Down(t) => t[Len(s) + 1].kind = "not_observed"
    BY <2>5 DEF Down
  <2>8. t[Len(s) + 1].kind = "not_observed" => Down(t)
    BY <2>4, <2>6 DEF Down
  <2> QED BY <1>1, <2>1, <2>3, <2>7, <2>8
<1> QED BY <1>2, <1>3 DEF t

\* An appended event decides its own id, and nothing else.
LEMMA HoldsAppend ==
  ASSUME NEW s \in Seq(Events), NEW e \in Events, NEW i, NEW c
  PROVE  Holds(Append(s, e), i, c) <=> IF e.id = i
                                      THEN /\ e.kind \in {"appeared", "changed"}
                                           /\ e.content = c /\ c \in Own
                                      ELSE Holds(s, i, c)
<1> DEFINE t == Append(s, e)
<1>1. /\ DOMAIN t = 1 .. Len(s) + 1 /\ DOMAIN s = 1 .. Len(s) /\ Len(s) \in Nat
      /\ t[Len(s) + 1] = e /\ \A n \in 1 .. Len(s) : t[n] = s[n]
  OBVIOUS
<1> HIDE DEF t
<1>2. LatestAt(t, Len(s) + 1)
  BY <1>1 DEF LatestAt
<1>3. \A n \in 1 .. Len(s) : LatestAt(t, n) <=> LatestAt(s, n) /\ s[n].id # e.id
  <2> SUFFICES ASSUME NEW n \in 1 .. Len(s)
               PROVE  LatestAt(t, n) <=> LatestAt(s, n) /\ s[n].id # e.id
    OBVIOUS
  <2>1. ASSUME LatestAt(t, n) PROVE LatestAt(s, n) /\ s[n].id # e.id
    BY <1>1, <2>1 DEF LatestAt
  <2>2. ASSUME LatestAt(s, n), s[n].id # e.id PROVE LatestAt(t, n)
    <3>1. ASSUME NEW m \in DOMAIN t, m > n PROVE t[m].id # t[n].id
      <4>1. m \in 1 .. Len(s) \/ m = Len(s) + 1
        BY <1>1, <3>1
      <4> QED BY <1>1, <2>2, <3>1, <4>1 DEF LatestAt
    <3> QED BY <1>1, <3>1 DEF LatestAt
  <2> QED BY <2>1, <2>2
<1>4. \A n \in DOMAIN t : n \in 1 .. Len(s) \/ n = Len(s) + 1
  BY <1>1
<1>5. \A n \in 1 .. Len(s) : n \in DOMAIN t
  BY <1>1
<1>6. Shows(s, i, c) <=> \E n \in 1 .. Len(s) : /\ LatestAt(s, n) /\ s[n].id = i
                                                /\ s[n].kind \in {"appeared", "changed"}
                                                /\ s[n].content = c
  BY <1>1 DEF Shows
<1>7. Shows(t, i, c) <=> \/ e.id = i /\ e.kind \in {"appeared", "changed"} /\ e.content = c
                         \/ \E n \in 1 .. Len(s) : /\ LatestAt(t, n) /\ t[n].id = i
                                                   /\ t[n].kind \in {"appeared", "changed"}
                                                   /\ t[n].content = c
  BY <1>1, <1>2, <1>4, <1>5 DEF Shows
<1> QED BY <1>1, <1>3, <1>6, <1>7 DEF t, Holds

\* An event is logged once: it was, or it is the last of a longer log.
LEMMA AppendOnce ==
  ASSUME log \in Seq(Events), NEW e \in Events, log' = Append1(e)
  PROVE  /\ log' \in Seq(Events)
         /\ Len(log') >= Len(log)
         /\ \A n \in DOMAIN log : n \in DOMAIN log' /\ log'[n] = log[n]
         /\ \E n \in DOMAIN log' : log'[n] = e
         /\ \/ log' = log /\ Logged(e)
            \/ log' = Append(log, e) /\ ~Logged(e)
<1>1. CASE Logged(e)
  BY <1>1 DEF Append1, Logged
<1>2. CASE ~Logged(e)
  <2>1. log' = Append(log, e)
    BY <1>2 DEF Append1
  <2>2. Len(log) + 1 \in DOMAIN log' /\ log'[Len(log) + 1] = e
    BY <2>1
  <2> QED BY <1>2, <2>1, <2>2
<1> QED BY <1>1, <1>2

-------------------------------------------------------------------------------
(* Types *)

\* What an ingest owes is made of events.
LEMMA OwedTypes ==
  ASSUME NEW was \in Seq(Events), NEW seen \in Surfaces
  PROVE  Diff(was, seen.items) \subseteq Events /\ Notices(was, seen) \subseteq Events
<1>1. \A i \in Ids : seen.items[i] # None => seen.items[i] \in AnyContent
  BY DEF Surfaces
<1>2. Diff(was, seen.items) \subseteq Events
  <2>1. \A h \in Ids \X AnyContent : Resolved(h[1], h[2], 0) \in Events
    BY EventTypes
  <2>2. \A i \in Ids : seen.items[i] # None =>
          Appeared(i, seen.items[i]) \in Events /\ Changed(i, seen.items[i]) \in Events
    BY <1>1, EventTypes
  <2> QED BY <2>1, <2>2 DEF Diff, DiffById
<1>3. Notices(was, seen) \subseteq Events
  BY MarkersFinite, EventTypes DEF Notices
<1> QED BY <1>2, <1>3

\* The rest states are of their types.
LEMMA RestTypes == NoIngest \in Ingests /\ NoPass \in Passes /\ NoRow \in Rows
BY DEF NoIngest, Ingests, Surfaces, NoPass, Passes, NoRow, Rows

\* The initial state is of the right type.
LEMMA InitInbox == Init => TypeOK
<1> SUFFICES ASSUME Init PROVE TypeOK
  OBVIOUS
<1>1. log \in Seq(Events) /\ Len(log) = 0 /\ ingest.listed = 0
  BY DEF Init, NoIngest
<1>2. journal \in [resolve : Seq(Resolutions), escalate : Seq(Escalates)]
  BY DEF Init
<1> QED BY <1>1, <1>2, RestTypes, BoundsAssumption DEF BoundsAssumption, Init, TypeOK

\* An ingest owes markers, items and resolutions, and retries the last.
OwedKinds ==
  \A e \in ingest.owed :
    /\ IsMarker(e) \/ e.kind \in {"appeared", "changed", "resolved"}
    /\ ingest.at = "retry" => e.kind = "resolved"

\* What an ingest begins to owe.
LEMMA KindsOwed ==
  ASSUME NEW was, NEW seen
  PROVE  /\ \A e \in Notices(was, seen) : IsMarker(e)
         /\ \A e \in Diff(was, seen.items) : e.kind \in {"appeared", "changed", "resolved"}
<1>1. \A e \in Notices(was, seen) : IsMarker(e)
  BY DEF Notices, Marker, Event, IsMarker
<1>2. \A e \in Diff(was, seen.items) : e.kind \in {"appeared", "changed", "resolved"}
  BY DEF Diff, DiffById, Appeared, Changed, Resolved, Event
<1> QED BY <1>1, <1>2

\* Only a resolution is retried, and only when nothing else is owed.
LEMMA OwedKindsStep == ASSUME TypeOK, OwedKinds, [Next]_vars PROVE OwedKinds'
<1>1. CASE ListPrior
  BY <1>1 DEF ListPrior, OwedKinds, TypeOK, Ingests, IsMarker
<1>2. CASE ReadSurface
  <2>1. /\ ingest'.at = "append"
        /\ ingest'.owed = Notices(Existing, surface)
                          \cup IF surface.up THEN Diff(Existing, surface.items) ELSE {}
    BY <1>2 DEF ReadSurface, TypeOK, Ingests
  <2>2. \A e \in ingest'.owed : IsMarker(e) \/ e.kind \in {"appeared", "changed", "resolved"}
    BY <2>1, KindsOwed
  <2> QED BY <2>1, <2>2 DEF OwedKinds
<1>3. ASSUME NEW e \in ingest.owed, Land(e) \/ Disambiguate(e) PROVE OwedKinds'
  <2>1. ingest'.at = "append" /\ ingest'.owed \subseteq ingest.owed
    BY <1>3 DEF Land, Disambiguate, TypeOK, Ingests
  <2> QED BY <2>1 DEF OwedKinds
<1>4. ASSUME NEW e \in ingest.owed, Collide(e) PROVE OwedKinds'
  <2>1. ingest'.owed = ingest.owed /\ e.kind = "resolved"
    BY <1>4 DEF Collide, TypeOK, Ingests
  <2>2. Turn(e) = 3 /\ \A f \in ingest.owed : Turn(e) <= Turn(f)
    BY <1>4, <2>1 DEF Collide, Due, Turn, IsMarker
  <2>3. ASSUME NEW f \in ingest.owed PROVE f.kind = "resolved"
    BY <2>2 DEF Turn, OwedKinds
  <2> QED BY <2>1, <2>3 DEF OwedKinds
<1>5. CASE EndIngest \/ AbortIngest
  BY <1>5 DEF EndIngest, AbortIngest, NoIngest, OwedKinds
<1>6. CASE UNCHANGED ingest
  BY <1>6 DEF OwedKinds
<1> QED BY <1>1, <1>2, <1>3, <1>4, <1>5, <1>6
        DEF Next, Ingest, Reflect, ReadJournal, Record, Claim, LogOutcome, Finalize, FinalizeLost,
            SurfaceEscalation, AbortPass, Recover, ChangeSurface, Decide, vars

\* What the steps of an ingest leave.
LEMMA IngestType ==
  ASSUME TypeOK, OwedKinds, Ingest \/ AbortIngest
  PROVE  TypeOK'
<1>1. CASE ListPrior
  <2> DEFINE r == [ingest EXCEPT !.at = "listed", !.listed = Len(log)]
  <2>1. Len(log) \in Nat
    BY DEF TypeOK
  <2>2. r \in Ingests /\ r.listed = Len(log)
    BY <2>1 DEF TypeOK, Ingests
  <2>3. ingest' = r
    BY <1>1 DEF ListPrior
  <2> HIDE DEF r
  <2> QED BY <1>1, <2>1, <2>2, <2>3 DEF ListPrior, TypeOK
<1>2. CASE ReadSurface
  <2> DEFINE o == Notices(Existing, surface)
                  \cup IF surface.up THEN Diff(Existing, surface.items) ELSE {}
             r == [ingest EXCEPT !.at = "append", !.listed = 0, !.saw = surface, !.owed = o]
  <2>1. Existing \in Seq(Events)
    BY DEF Existing, TypeOK, Ingests
  <2>2. o \in SUBSET Events
    BY <2>1, OwedTypes DEF TypeOK
  <2> HIDE DEF o
  <2>3. r \in Ingests /\ r.listed = 0
    BY <2>2 DEF TypeOK, Ingests
  <2>4. ingest' = r
    BY <1>2 DEF ReadSurface, o
  <2> HIDE DEF r
  <2>5. Len(log) \in Nat
    BY DEF TypeOK
  <2> QED BY <1>2, <2>3, <2>4, <2>5 DEF ReadSurface, TypeOK
<1>3. ASSUME NEW e \in ingest.owed, Land(e) PROVE TypeOK'
  <2> DEFINE r == [ingest EXCEPT !.owed = @ \ {e}]
  <2>1. e \in Events /\ r \in Ingests /\ r.listed = ingest.listed
    BY DEF TypeOK, Ingests
  <2>2. ingest' = r
    BY <1>3 DEF Land
  <2> HIDE DEF r
  <2>3. log' \in Seq(Events) /\ Len(log') >= Len(log)
    BY <1>3, <2>1, AppendOnce DEF Land, TypeOK
  <2>4. ingest'.listed <= Len(log')
    BY <2>1, <2>2, <2>3 DEF TypeOK, Ingests
  <2> QED BY <1>3, <2>1, <2>2, <2>3, <2>4 DEF Land, TypeOK
<1>4. ASSUME NEW e \in ingest.owed, Collide(e) PROVE TypeOK'
  <2> DEFINE r == [ingest EXCEPT !.at = "retry"]
  <2>1. r \in Ingests /\ r.listed = ingest.listed
    BY DEF TypeOK, Ingests
  <2>2. ingest' = r
    BY <1>4 DEF Collide
  <2> HIDE DEF r
  <2> QED BY <1>4, <2>1, <2>2 DEF Collide, TypeOK
<1>5. ASSUME NEW e \in ingest.owed, Disambiguate(e) PROVE TypeOK'
  <2> DEFINE r == [ingest EXCEPT !.at = "append", !.owed = @ \ {e}]
  <2>1. e \in Events /\ r \in Ingests /\ r.listed = ingest.listed
    BY DEF TypeOK, Ingests
  <2>2. ingest' = r
    BY <1>5 DEF Disambiguate
  <2> HIDE DEF r
  <2>a. e.kind = "resolved"
    BY <1>5 DEF Disambiguate, OwedKinds
  <2>3. e.id \in Ids /\ e.content \in AnyContent /\ Len(log) \in Nat
    BY <2>1, <2>a DEF Events, TypeOK
  <2>4. Retried(e) \in Events
    BY <2>3, EventTypes DEF Retried
  <2>5. log' \in Seq(Events) /\ Len(log') >= Len(log)
    BY <1>5, <2>4, AppendOnce DEF Disambiguate, TypeOK
  <2>6. ingest'.listed <= Len(log')
    BY <2>1, <2>2, <2>5 DEF TypeOK, Ingests
  <2> QED BY <1>5, <2>1, <2>2, <2>5, <2>6 DEF Disambiguate, TypeOK
<1>6. CASE EndIngest \/ AbortIngest
  <2>1. NoIngest.listed = 0 /\ Len(log) \in Nat
    BY DEF NoIngest, TypeOK
  <2>2. faults' \in 0 .. MaxFaults
    BY <1>6, BoundsAssumption DEF BoundsAssumption, EndIngest, AbortIngest, TypeOK
  <2> QED BY <1>6, <2>1, <2>2, RestTypes DEF EndIngest, AbortIngest, TypeOK
<1> QED BY <1>1, <1>2, <1>3, <1>4, <1>5, <1>6 DEF Ingest

\* The rest of a pass, or another step of it, is of the right type.
LEMMA PassType ==
  ASSUME TypeOK, NEW k \in Consoles, reflect[k].todo # <<>>
  PROVE  /\ PassOn(k) => reflect' \in [Consoles -> Passes]
         /\ \A step \in {"recorded", "claimed", "logged"} :
              StepTo(k, step) => reflect' \in [Consoles -> Passes]
<1>1. /\ reflect \in [Consoles -> Passes] /\ reflect[k] \in Passes
      /\ reflect[k].todo \in Seq(Decisions)
  BY DEF TypeOK, Passes
<1>2. ASSUME PassOn(k) PROVE reflect' \in [Consoles -> Passes]
  <2> DEFINE r == IF Len(reflect[k].todo) = 1 THEN NoPass
                  ELSE [at |-> "next", todo |-> Tail(reflect[k].todo)]
  <2>1. Tail(reflect[k].todo) \in Seq(Decisions)
    BY <1>1
  <2>2. r \in Passes
    BY <2>1, RestTypes DEF Passes
  <2>3. reflect' = [reflect EXCEPT ![k] = r]
    BY <1>2 DEF PassOn
  <2> HIDE DEF r
  <2> QED BY <1>1, <2>2, <2>3
<1>3. ASSUME NEW step \in {"recorded", "claimed", "logged"}, StepTo(k, step)
      PROVE  reflect' \in [Consoles -> Passes]
  <2> DEFINE r == [reflect[k] EXCEPT !.at = step]
  <2>1. r \in Passes
    BY <1>1 DEF Passes
  <2>2. reflect' = [reflect EXCEPT ![k] = r]
    BY <1>3 DEF StepTo
  <2> HIDE DEF r
  <2> QED BY <1>1, <2>1, <2>2
<1> QED BY <1>2, <1>3

\* A decision a pass faces, by its kind.
LEMMA FacedType ==
  ASSUME TypeOK, NEW k \in Consoles, NEW step, NEW kind, Facing(k, step, kind)
  PROVE  /\ reflect[k].at = step /\ reflect[k].todo # <<>>
         /\ Head(reflect[k].todo).kind = kind
         /\ kind = "resolve" => Head(reflect[k].todo) \in Resolutions
         /\ kind = "escalate" => Head(reflect[k].todo) \in Escalates
<1>1. reflect[k].todo \in Seq(Decisions)
  BY DEF TypeOK, Passes
<1>2. Head(reflect[k].todo) \in Decisions
  BY <1>1 DEF Facing
<1> QED BY <1>2 DEF Facing, Decisions, Resolutions, Escalates

\* A row whose status is set keeps its type.
LEMMA RowType ==
  ASSUME TypeOK, NEW i \in Valves, NEW s \in {"executing", "completed", "failed"},
         rows' = [rows EXCEPT ![i].status = s]
  PROVE  rows' \in [Valves -> Rows]
<1> DEFINE r == [rows[i] EXCEPT !.status = s]
<1>1. r \in Rows
  BY DEF TypeOK, Rows
<1>2. rows' = [rows EXCEPT ![i] = r]
  OBVIOUS
<1> HIDE DEF r
<1> QED BY <1>1, <1>2 DEF TypeOK

\* What the steps of a reflection leave.
LEMMA ReflectType ==
  ASSUME TypeOK, NEW k \in Consoles, Reflect(k) \/ AbortPass(k)
  PROVE  TypeOK'
<1>1. CASE ReadJournal(k)
  <2> DEFINE r == [at |-> "next", todo |-> journal.resolve \o journal.escalate]
  <2>1. journal.resolve \in Seq(Decisions) /\ journal.escalate \in Seq(Decisions)
    BY DEF TypeOK, Decisions
  <2>2. r \in Passes
    BY <2>1 DEF Passes
  <2>3. reflect' = [reflect EXCEPT ![k] = r]
    BY <1>1 DEF ReadJournal
  <2> HIDE DEF r
  <2>4. reflect' \in [Consoles -> Passes]
    BY <2>2, <2>3 DEF TypeOK
  <2> QED BY <1>1, <2>4 DEF ReadJournal, TypeOK
<1>2. CASE Record(k)
  <2> DEFINE d == Head(reflect[k].todo)
             r == [status |-> "pending", tag |-> d.tag]
  <2>1. reflect[k].todo # <<>> /\ d.id \in Valves /\ r \in Rows
    BY <1>2, FacedType DEF Record, Resolutions, Rows
  <2>2. reflect' \in [Consoles -> Passes]
    BY <1>2, <2>1, PassType DEF Record
  <2>3. rows' = rows \/ rows' = [rows EXCEPT ![d.id] = r]
    BY <1>2 DEF Record
  <2> HIDE DEF d, r
  <2>4. rows' \in [Valves -> Rows]
    BY <2>1, <2>3 DEF TypeOK
  <2> QED BY <1>2, <2>2, <2>4 DEF Record, TypeOK
<1>3. CASE Claim(k)
  <2>1. reflect[k].todo # <<>> /\ Head(reflect[k].todo).id \in Valves
    BY <1>3, FacedType DEF Claim, Resolutions
  <2>2. reflect' \in [Consoles -> Passes] /\ rows' \in [Valves -> Rows]
    BY <1>3, <2>1, PassType, RowType DEF Claim
  <2> QED BY <1>3, <2>2 DEF Claim, TypeOK
<1>4. CASE LogOutcome(k)
  <2>1. reflect[k].todo # <<>> /\ Reflected(Head(reflect[k].todo).id) \in Events
    BY <1>4, FacedType, EventTypes DEF LogOutcome, Resolutions
  <2>2. reflect' \in [Consoles -> Passes]
    BY <1>4, <2>1, PassType DEF LogOutcome
  <2>3. log' \in Seq(Events) /\ Len(log') >= Len(log)
    BY <1>4, <2>1, AppendOnce DEF LogOutcome, TypeOK
  <2>4. ingest.listed <= Len(log')
    BY <2>3 DEF TypeOK, Ingests
  <2> QED BY <1>4, <2>2, <2>3, <2>4 DEF LogOutcome, TypeOK
<1>5. CASE Finalize(k)
  <2>1. reflect[k].todo # <<>> /\ Head(reflect[k].todo).id \in Valves
    BY <1>5, FacedType DEF Finalize, Finalizing, Resolutions
  <2>2. reflect' \in [Consoles -> Passes] /\ rows' \in [Valves -> Rows]
    BY <1>5, <2>1, PassType, RowType DEF Finalize
  <2> QED BY <1>5, <2>2 DEF Finalize, TypeOK
<1>6. CASE SurfaceEscalation(k)
  <2>1. /\ reflect[k].todo # <<>>
        /\ Escalated(Head(reflect[k].todo).id, Head(reflect[k].todo).tag) \in Events
    BY <1>6, FacedType, EventTypes DEF SurfaceEscalation, Escalates
  <2>2. reflect' \in [Consoles -> Passes]
    BY <1>6, <2>1, PassType DEF SurfaceEscalation
  <2>3. log' \in Seq(Events) /\ Len(log') >= Len(log)
    BY <1>6, <2>1, AppendOnce DEF SurfaceEscalation, TypeOK
  <2>4. ingest.listed <= Len(log')
    BY <2>3 DEF TypeOK, Ingests
  <2> QED BY <1>6, <2>2, <2>3, <2>4 DEF SurfaceEscalation, TypeOK
<1>7. CASE FinalizeLost(k) \/ AbortPass(k)
  <2>1. reflect' = [reflect EXCEPT ![k] = NoPass]
    BY <1>7 DEF FinalizeLost, AbortPass
  <2>2. reflect' \in [Consoles -> Passes]
    BY <2>1, RestTypes DEF TypeOK
  <2>3. faults' \in 0 .. MaxFaults
    BY <1>7, BoundsAssumption DEF BoundsAssumption, FinalizeLost, AbortPass, TypeOK
  <2> QED BY <1>7, <2>2, <2>3 DEF FinalizeLost, AbortPass, TypeOK
<1> QED BY <1>1, <1>2, <1>3, <1>4, <1>5, <1>6, <1>7 DEF Reflect

\* What a recovery and the orchestrator leave.
LEMMA WorldType ==
  ASSUME TypeOK, (\E i \in Valves : Recover(i)) \/ ChangeSurface \/ (\E d \in Decisions : Decide(d))
  PROVE  TypeOK'
<1>1. ASSUME NEW i \in Valves, Recover(i) PROVE TypeOK'
  <2>1. rows' \in [Valves -> Rows]
    BY <1>1, RowType DEF Recover
  <2>2. faults' \in 0 .. MaxFaults
    BY <1>1, BoundsAssumption DEF BoundsAssumption, Recover, TypeOK
  <2> QED BY <1>1, <2>1, <2>2 DEF Recover, TypeOK
<1>2. CASE ChangeSurface
  <2>1. surface' \in Surfaces
    <3>1. CASE surface' = [surface EXCEPT !.up = ~@]
      BY <3>1 DEF TypeOK, Surfaces
    <3>2. ASSUME NEW i \in Ids, NEW c \in Contents[i] \cup {None},
                 surface' = [surface EXCEPT !.items[i] = c]
          PROVE  surface' \in Surfaces
      <4> DEFINE f == [surface.items EXCEPT ![i] = c]
      <4>1. c \in AnyContent \cup {None} /\ surface.items \in [Ids -> AnyContent \cup {None}]
        BY DEF AnyContent, TypeOK, Surfaces
      <4>2. f \in [Ids -> AnyContent \cup {None}]
        BY <4>1
      <4>3. surface' = [surface EXCEPT !.items = f]
        BY <3>2
      <4> HIDE DEF f
      <4> QED BY <4>2, <4>3 DEF TypeOK, Surfaces
    <3> QED BY <1>2, <3>1, <3>2 DEF ChangeSurface
  <2>2. changes' \in 0 .. MaxChanges
    BY <1>2, BoundsAssumption DEF BoundsAssumption, ChangeSurface, TypeOK
  <2> QED BY <1>2, <2>1, <2>2 DEF ChangeSurface, TypeOK
<1>3. ASSUME NEW d \in Decisions, Decide(d) PROVE TypeOK'
  <2>1. journal' = [journal EXCEPT ![d.kind] = Append(journal[d.kind], d)]
    BY <1>3 DEF Decide
  <2>2. \/ d.kind = "resolve" /\ d \in Resolutions
        \/ d.kind = "escalate" /\ d \in Escalates
    BY DEF Decisions, Resolutions, Escalates
  <2> DEFINE J == [resolve : Seq(Resolutions), escalate : Seq(Escalates)]
  <2>3. journal \in J /\ journal.resolve \in Seq(Resolutions) /\ journal.escalate \in Seq(Escalates)
    BY DEF TypeOK
  <2>4. ASSUME d.kind = "resolve", d \in Resolutions PROVE journal' \in J
    <3> DEFINE t == Append(journal.resolve, d)
    <3>1. t \in Seq(Resolutions)
      BY <2>3, <2>4
    <3>2. journal' = [journal EXCEPT !.resolve = t]
      BY <2>1, <2>4
    <3> HIDE DEF t
    <3> QED BY <2>3, <3>1, <3>2
  <2>5. ASSUME d.kind = "escalate", d \in Escalates PROVE journal' \in J
    <3> DEFINE t == Append(journal.escalate, d)
    <3>1. t \in Seq(Escalates)
      BY <2>3, <2>5
    <3>2. journal' = [journal EXCEPT !.escalate = t]
      BY <2>1, <2>5
    <3> HIDE DEF t
    <3> QED BY <2>3, <3>1, <3>2
  <2>6. journal' \in J
    BY <2>2, <2>4, <2>5
  <2> QED BY <1>3, <2>6 DEF Decide, TypeOK
<1> QED BY <1>1, <1>2, <1>3

\* Every step keeps every variable in its type.
LEMMA InboxType == TypeOK /\ OwedKinds /\ [Next]_vars => (TypeOK /\ OwedKinds)'
<1>1. TypeOK /\ UNCHANGED vars => TypeOK'
  BY DEF TypeOK, vars
<1> QED BY <1>1, OwedKindsStep, IngestType, ReflectType, WorldType DEF Next

\* TypeOK holds for any surface, any journal and any bounds.
THEOREM InboxTypeCorrect == Spec => []TypeOK
<1>1. Init => TypeOK /\ OwedKinds
  BY InitInbox DEF Init, NoIngest, OwedKinds
<1> QED BY <1>1, InboxType, PTL DEF Spec
-------------------------------------------------------------------------------
(* The invariant *)

Prefix ==
  ingest.at = "listed" =>
    \A n \in DOMAIN log : n > ingest.listed => log[n].kind \in {"reflected", "escalated"}

Stamped ==
  \A n \in DOMAIN log : /\ log[n].kind = "resolved" => log[n].tag < n
                        /\ IsMarker(log[n]) => log[n].tag <= MarkerCount(log)

HasAppeared(i) == \E c \in AnyContent : Logged(Appeared(i, c))

History ==
  \A n \in DOMAIN log : log[n].kind \in {"changed", "resolved"} => HasAppeared(log[n].id)

Busy == ingest.at \in {"append", "retry"}

\* What is owed is right, and told once.
Owed ==
  /\ ~Busy => ingest.owed = {}
  /\ \A e \in ingest.owed :
       /\ e.kind = "resolved" => e.tag = 0
       /\ e.kind \in {"appeared", "changed"} => ingest.saw.items[e.id] # None
       /\ e.kind \in {"changed", "resolved"} => HasAppeared(e.id)
       /\ IsMarker(e) => /\ e.tag = MarkerCount(log) + 1
                         /\ e.kind = "not_observed" <=> ~ingest.saw.up
                         /\ ingest.saw.up <=> Down(log)

NoneLingers ==
  \A i \in Ids, c \in AnyContent :
    ingest.saw.items[i] = None /\ Holds(log, i, c) => Resolved(i, c, 0) \in ingest.owed

Shown(e) == Logged(e) \/ e \in ingest.owed

AllShown ==
  \A i \in Ids : ingest.saw.items[i] # None =>
    Shown(Appeared(i, ingest.saw.items[i])) \/ Shown(Changed(i, ingest.saw.items[i]))

\* What is wrong is owed.
Complete ==
  Busy => /\ ingest.saw.up => NoneLingers /\ AllShown
          /\ (Down(log) <=> ~ingest.saw.up) \/ \E e \in ingest.owed : IsMarker(e)

Alternate ==
  \A m, n \in Markers(log) :
    /\ m < n /\ (\A l \in Markers(log) : ~(m < l /\ l < n)) => log[m].kind # log[n].kind
    /\ (\A l \in Markers(log) : n <= l) => log[n].kind = "not_observed"

IngestInv == TypeOK /\ OwedKinds /\ Prefix /\ Stamped /\ History /\ Owed /\ Complete /\ Alternate

\* Whatever is not a step of the ingest leaves it alone, and logs at most an
\* event of a reflection.
Elsewhere ==
  /\ UNCHANGED ingest
  /\ \/ log' = log
     \/ \E e \in Events : log' = Append(log, e) /\ e.kind \in {"reflected", "escalated"}

LEMMA Steps ==
  ASSUME TypeOK, [Next]_vars
  PROVE  Elsewhere \/ Ingest \/ AbortIngest
<1>1. ASSUME NEW k \in Consoles, LogOutcome(k) PROVE Elsewhere
  <2>1. Reflected(Head(reflect[k].todo).id) \in Events
    BY <1>1, FacedType, EventTypes DEF LogOutcome, Resolutions
  <2>2. Reflected(Head(reflect[k].todo).id).kind = "reflected"
    BY DEF Reflected, Event
  <2> QED BY <1>1, <2>1, <2>2, AppendOnce DEF LogOutcome, Elsewhere, TypeOK
<1>2. ASSUME NEW k \in Consoles, SurfaceEscalation(k) PROVE Elsewhere
  <2>1. Escalated(Head(reflect[k].todo).id, Head(reflect[k].todo).tag) \in Events
    BY <1>2, FacedType, EventTypes DEF SurfaceEscalation, Escalates
  <2>2. Escalated(Head(reflect[k].todo).id, Head(reflect[k].todo).tag).kind = "escalated"
    BY DEF Escalated, Event
  <2> QED BY <1>2, <2>1, <2>2, AppendOnce DEF SurfaceEscalation, Elsewhere, TypeOK
<1>3. UNCHANGED <<log, ingest>> => Elsewhere
  BY DEF Elsewhere
<1>4. ASSUME NEW k \in Consoles, Reflect(k) \/ AbortPass(k) PROVE Elsewhere
  BY <1>1, <1>2, <1>3, <1>4
     DEF Reflect, ReadJournal, Record, Claim, Finalize, FinalizeLost, AbortPass
<1>5. ASSUME NEW i \in Valves, Recover(i) PROVE Elsewhere
  BY <1>3, <1>5 DEF Recover
<1>6. ASSUME NEW d \in Decisions, Decide(d) PROVE Elsewhere
  BY <1>3, <1>6 DEF Decide
<1> QED BY <1>3, <1>4, <1>5, <1>6 DEF Next, ChangeSurface, vars

\* A retried resolution is new.
LEMMA RetryIsNew ==
  ASSUME TypeOK, Stamped, NEW e, e.kind = "resolved"
  PROVE  ~Logged(Retried(e))
<1>1. Retried(e).kind = "resolved" /\ Retried(e).tag = Len(log)
  BY DEF Retried, Resolved, Event
<1>2. \A n \in DOMAIN log : n <= Len(log) /\ n \in Nat
  BY DEF TypeOK
<1>3. \A n \in DOMAIN log : log[n].kind = "resolved" => log[n].tag < n
  BY DEF Stamped
<1>4. \A n \in DOMAIN log : log[n].kind = "resolved" => log[n].tag \in Nat
  BY DEF TypeOK, Events
<1>5. Len(log) \in Nat
  BY DEF TypeOK
<1> QED BY <1>1, <1>2, <1>3, <1>4, <1>5 DEF Logged

\* An owed marker is new.
LEMMA MarkerIsNew ==
  ASSUME TypeOK, Stamped, Owed, NEW e \in ingest.owed, IsMarker(e)
  PROVE  ~Logged(e)
<1>1. e.tag = MarkerCount(log) + 1 /\ MarkerCount(log) \in Nat
  BY MarkersFinite DEF Owed, TypeOK
<1>2. \A n \in DOMAIN log : IsMarker(log[n]) => log[n].tag <= MarkerCount(log)
  BY DEF Stamped
<1> QED BY <1>1, <1>2 DEF Logged

\* A step of an ingest that logs, logs an event that it owes, or its retry.
Landing(e, a) ==
  /\ Busy /\ e \in ingest.owed /\ e \in Events /\ a \in Events
  /\ ingest'.at = "append" /\ ingest'.saw = ingest.saw
  /\ ingest'.owed = ingest.owed \ {e}
  /\ a = e \/ (e.kind = "resolved" /\ a = Retried(e))
  /\ log' = Append(log, a) \/ (log' = log /\ Logged(e) /\ e.kind \in {"appeared", "changed"})

LEMMA Landings ==
  ASSUME TypeOK, OwedKinds, Stamped, Owed, NEW e \in ingest.owed, Land(e) \/ Disambiguate(e)
  PROVE  \E a \in Events : Landing(e, a)
<1>1. e \in Events /\ log \in Seq(Events)
  BY DEF TypeOK, Ingests
<1>2. /\ ingest'.at = "append" /\ ingest'.saw = ingest.saw
      /\ ingest'.owed = ingest.owed \ {e} /\ Busy
  BY DEF Land, Disambiguate, TypeOK, Ingests, Busy
<1>3. CASE Land(e)
  <2>1. \/ log' = log /\ Logged(e)
        \/ log' = Append(log, e) /\ ~Logged(e)
    BY <1>1, <1>3, AppendOnce DEF Land
  <2>2. Logged(e) => e.kind \in {"appeared", "changed"}
    BY <1>3, MarkerIsNew DEF Land, OwedKinds
  <2>3. \/ log' = log /\ Logged(e) /\ e.kind \in {"appeared", "changed"}
        \/ log' = Append(log, e)
    BY <2>1, <2>2
  <2>4. Landing(e, e)
    BY <1>1, <1>2, <2>3 DEF Landing
  <2> QED BY <1>1, <2>4
<1>4. CASE Disambiguate(e)
  <2>1. e.kind = "resolved"
    BY <1>4 DEF Disambiguate, OwedKinds
  <2>2. e.id \in Ids /\ e.content \in AnyContent /\ Len(log) \in Nat
    BY <1>1, <2>1 DEF Events
  <2>3. Retried(e) \in Events
    BY <2>2, EventTypes DEF Retried
  <2>4. log' = Append(log, Retried(e))
    BY <1>1, <1>4, <2>1, <2>3, RetryIsNew, AppendOnce DEF Disambiguate
  <2> QED BY <1>1, <1>2, <2>1, <2>3, <2>4 DEF Landing
<1> QED BY <1>3, <1>4

\* The log as it was listed, and as it is when the surface is read.
LEMMA ListedIsCurrent ==
  ASSUME TypeOK, Prefix, ingest.at = "listed"
  PROVE  /\ Existing \in Seq(Events)
         /\ Markers(Existing) = Markers(log)
         /\ Down(Existing) <=> Down(log)
         /\ \A i, c : Holds(log, i, c) => Holds(Existing, i, c)
         /\ \A n \in DOMAIN Existing : n \in DOMAIN log /\ log[n] = Existing[n]
<1>1. log \in Seq(Events) /\ ingest.listed \in Nat /\ ingest.listed <= Len(log)
  BY DEF TypeOK, Ingests
<1>2. /\ Existing \in Seq(Events) /\ DOMAIN Existing = 1 .. ingest.listed
      /\ DOMAIN log = 1 .. Len(log)
      /\ \A n \in 1 .. ingest.listed : n \in DOMAIN log /\ Existing[n] = log[n]
  BY <1>1 DEF Existing
<1>3. \A n \in DOMAIN log : n \notin 1 .. ingest.listed =>
        log[n].kind \in {"reflected", "escalated"}
  BY <1>1, <1>2 DEF Prefix
<1>4. Markers(Existing) = Markers(log)
  BY <1>2, <1>3 DEF Markers, IsMarker
<1>5. \A n \in Markers(log) : Existing[n] = log[n]
  BY <1>2, <1>4 DEF Markers
<1>6. Down(Existing) <=> Down(log)
  BY <1>4, <1>5 DEF Down
<1>7. ASSUME NEW i, NEW c, Holds(log, i, c) PROVE Holds(Existing, i, c)
  <2>1. PICK n \in DOMAIN log : /\ LatestAt(log, n) /\ log[n].id = i
                                /\ log[n].kind \in {"appeared", "changed"}
                                /\ log[n].content = c /\ c \in Own
    BY <1>7 DEF Holds, Shows
  <2>2. n \in 1 .. ingest.listed
    BY <1>3, <2>1
  <2>3. LatestAt(Existing, n)
    BY <1>2, <2>1, <2>2 DEF LatestAt
  <2> QED BY <1>2, <2>1, <2>2, <2>3 DEF Holds, Shows
<1> QED BY <1>2, <1>4, <1>6, <1>7
-------------------------------------------------------------------------------
(* Steps outside the ingest *)

\* What an event of a reflection leaves as it was.
LEMMA ReflectedLog ==
  ASSUME TypeOK, Elsewhere
  PROVE  /\ Markers(log') = Markers(log) /\ MarkerCount(log') = MarkerCount(log)
         /\ Down(log') <=> Down(log)
         /\ \A n \in DOMAIN log : n \in DOMAIN log' /\ log'[n] = log[n]
         /\ \A n \in DOMAIN log' : \/ n \in DOMAIN log
                                   \/ log'[n].kind \in {"reflected", "escalated"}
         /\ \A i, c : Holds(log', i, c) => Holds(log, i, c)
<1>1. CASE log' = log
  BY <1>1
<1>2. ASSUME NEW e \in Events, log' = Append(log, e), e.kind \in {"reflected", "escalated"}
      PROVE  /\ Markers(log') = Markers(log) /\ MarkerCount(log') = MarkerCount(log)
             /\ Down(log') <=> Down(log)
             /\ \A n \in DOMAIN log : n \in DOMAIN log' /\ log'[n] = log[n]
             /\ \A n \in DOMAIN log' : \/ n \in DOMAIN log
                                       \/ log'[n].kind \in {"reflected", "escalated"}
             /\ \A i, c : Holds(log', i, c) => Holds(log, i, c)
  <2>1. log \in Seq(Events) /\ ~IsMarker(e)
    BY <1>2 DEF TypeOK, IsMarker
  <2>2. /\ Markers(log') = Markers(log) /\ MarkerCount(log') = MarkerCount(log)
        /\ Down(log') <=> Down(log)
    BY <1>2, <2>1, MarkersAppend
  <2>3. /\ \A n \in DOMAIN log : n \in DOMAIN log' /\ log'[n] = log[n]
        /\ \A n \in DOMAIN log' : n \in DOMAIN log \/ log'[n] = e
    BY <1>2, <2>1
  <2>4. \A i, c : Holds(log', i, c) => Holds(log, i, c)
    BY <1>2, <2>1, HoldsAppend
  <2> QED BY <1>2, <2>2, <2>3, <2>4
<1> QED BY <1>1, <1>2 DEF Elsewhere

\* Nothing of the ingest's is disturbed by it.
LEMMA ElsewhereStep == ASSUME IngestInv, Elsewhere
                       PROVE  (Prefix /\ Stamped /\ History /\ Owed /\ Complete /\ Alternate)'
<1> USE DEF IngestInv
<1>1. /\ Markers(log') = Markers(log) /\ MarkerCount(log') = MarkerCount(log)
      /\ Down(log') <=> Down(log)
      /\ \A n \in DOMAIN log : n \in DOMAIN log' /\ log'[n] = log[n]
      /\ \A n \in DOMAIN log' : \/ n \in DOMAIN log
                                \/ log'[n].kind \in {"reflected", "escalated"}
      /\ \A i, c : Holds(log', i, c) => Holds(log, i, c)
      /\ ingest' = ingest
  BY ReflectedLog DEF Elsewhere
<1>2. \A e : Logged(e) => Logged(e)'
  BY <1>1 DEF Logged
<1>3. \A i : HasAppeared(i) => HasAppeared(i)'
  BY <1>2 DEF HasAppeared
<1>4. \A n \in Markers(log) : n \in DOMAIN log /\ log'[n] = log[n]
  BY <1>1 DEF Markers
<1>5. Prefix'
  BY <1>1 DEF Prefix
<1>6. Stamped'
  BY <1>1 DEF Stamped, IsMarker
<1>7. History'
  BY <1>1, <1>3 DEF History
<1>8. Owed'
  BY <1>1, <1>3 DEF Owed, Busy
<1>9. Complete'
  BY <1>1, <1>2 DEF Complete, Busy, NoneLingers, AllShown, Shown
<1>10. Alternate'
  BY <1>1, <1>4 DEF Alternate
<1> QED BY <1>5, <1>6, <1>7, <1>8, <1>9, <1>10

-------------------------------------------------------------------------------
(* The listing, the read and the end *)

LEMMA ListStep == ASSUME IngestInv, ListPrior \/ EndIngest \/ AbortIngest
                  PROVE  (Prefix /\ Stamped /\ History /\ Owed /\ Complete /\ Alternate)'
<1> USE DEF IngestInv
<1>1. UNCHANGED log
  BY DEF ListPrior, EndIngest, AbortIngest
<1>0. ingest \in Ingests /\ (~Busy => ingest.owed = {})
  BY DEF Owed, TypeOK
<1>2. ~Busy' /\ ingest'.owed = {} /\ (ingest'.at = "listed" => ingest'.listed = Len(log))
  <2>1. CASE ListPrior
    BY <1>0, <2>1 DEF ListPrior, Busy, Ingests
  <2>2. CASE EndIngest \/ AbortIngest
    BY <2>2 DEF EndIngest, AbortIngest, NoIngest, Busy
  <2> QED BY <2>1, <2>2
<1>3. Prefix'
  <2>1. ingest'.at = "listed" => ingest'.listed = Len(log)
    BY <1>2
  <2>2. \A n \in DOMAIN log : ~(n > Len(log))
    BY DEF TypeOK
  <2> QED BY <1>1, <2>1, <2>2 DEF Prefix
<1>4. Stamped' /\ History' /\ Alternate'
  BY <1>1 DEF Stamped, History, HasAppeared, Logged, Alternate
<1> QED BY <1>2, <1>3, <1>4 DEF Owed, Complete

LEMMA CollideStep == ASSUME IngestInv, NEW e \in ingest.owed, Collide(e)
                     PROVE  (Prefix /\ Stamped /\ History /\ Owed /\ Complete /\ Alternate)'
<1> USE DEF IngestInv
<1>1. /\ UNCHANGED log /\ ingest'.owed = ingest.owed /\ ingest'.saw = ingest.saw
      /\ ingest'.at = "retry" /\ Busy
  BY DEF Collide, TypeOK, Ingests, Busy
<1>2. Prefix' /\ Stamped' /\ History' /\ Alternate'
  BY <1>1 DEF Prefix, Stamped, History, HasAppeared, Logged, Alternate
<1>3. Owed'
  BY <1>1 DEF Owed, Busy, HasAppeared, Logged
<1>4. Complete'
  BY <1>1 DEF Complete, Busy, NoneLingers, AllShown, Shown, Logged
<1> QED BY <1>2, <1>3, <1>4

\* An item the log has shown has appeared in it.
LEMMA ShownHasAppeared ==
  ASSUME TypeOK, History, NEW i, NEW c, NEW n \in DOMAIN log,
         log[n].id = i, log[n].kind \in {"appeared", "changed"}, log[n].content = c
  PROVE  /\ HasAppeared(i)
         /\ Logged(Appeared(i, c)) \/ Logged(Changed(i, c))
<1>2. log[n] \in Events
  BY DEF TypeOK
<1>3. c \in AnyContent /\ (log[n] = Appeared(i, c) \/ log[n] = Changed(i, c))
  BY <1>2 DEF Events, Appeared, Changed, Event
<1>4. Logged(Appeared(i, c)) \/ Logged(Changed(i, c))
  BY <1>3 DEF Logged
<1>5. log[n].kind = "changed" => HasAppeared(i)
  BY DEF History
<1>6. log[n].kind = "appeared" => HasAppeared(i)
  <2>1. log[n].kind = "appeared" => log[n] = Appeared(i, c)
    BY <1>2 DEF Events, Appeared, Event
  <2> QED BY <1>3, <2>1 DEF HasAppeared, Logged
<1> QED BY <1>4, <1>5, <1>6

\* The read owes what the difference is, to the log as it is.
LEMMA ReadStep == ASSUME IngestInv, ReadSurface
                  PROVE  (Prefix /\ Stamped /\ History /\ Owed /\ Complete /\ Alternate)'
<1> DEFINE was == Existing
           told == Notices(was, surface)
           due == IF surface.up THEN Diff(was, surface.items) ELSE {}
<1>1. TypeOK /\ Prefix /\ Stamped /\ History /\ Alternate
  BY DEF IngestInv
<1>2. /\ UNCHANGED log /\ ingest.at = "listed" /\ ingest'.at = "append"
      /\ ingest'.saw = surface /\ ingest'.owed = told \cup due
  BY <1>1 DEF ReadSurface, TypeOK, Ingests
<1>3. /\ was \in Seq(Events) /\ Markers(was) = Markers(log) /\ (Down(was) <=> Down(log))
      /\ \A i, c : Holds(log, i, c) => Holds(was, i, c)
      /\ \A n \in DOMAIN was : n \in DOMAIN log /\ log[n] = was[n]
  BY <1>1, <1>2, ListedIsCurrent
<1>4. MarkerCount(was) = MarkerCount(log)
  BY <1>3 DEF MarkerCount
<1>5. \A i, c : Holds(was, i, c) =>
        HasAppeared(i) /\ (Logged(Appeared(i, c)) \/ Logged(Changed(i, c)))
  <2> SUFFICES ASSUME NEW i, NEW c, Holds(was, i, c)
               PROVE  HasAppeared(i) /\ (Logged(Appeared(i, c)) \/ Logged(Changed(i, c)))
    OBVIOUS
  <2>1. PICK n \in DOMAIN log : /\ log[n].id = i /\ log[n].kind \in {"appeared", "changed"}
                                /\ log[n].content = c
    BY <1>3 DEF Holds, Shows
  <2> QED BY <1>1, <2>1, ShownHasAppeared
<1>6. \A e \in told : /\ IsMarker(e) /\ e.tag = MarkerCount(log) + 1
                      /\ e.kind = "not_observed" <=> ~surface.up
                      /\ surface.up <=> Down(log)
  BY <1>3, <1>4 DEF Notices, Marker, Event, IsMarker
<1>7. \A e \in due : /\ e.kind \in {"appeared", "changed", "resolved"}
                     /\ e.kind = "resolved" => e.tag = 0
                     /\ e.kind \in {"appeared", "changed"} => surface.items[e.id] # None
                     /\ e.kind \in {"changed", "resolved"} => HasAppeared(e.id)
  <2>1. \A i : Appeared(i, surface.items[i]).kind = "appeared"
               /\ Appeared(i, surface.items[i]).id = i
    BY DEF Appeared, Event
  <2>2. \A i : Changed(i, surface.items[i]).kind = "changed"
               /\ Changed(i, surface.items[i]).id = i
    BY DEF Changed, Event
  <2>3. \A i, c : /\ Resolved(i, c, 0).kind = "resolved"
                  /\ Resolved(i, c, 0).id = i /\ Resolved(i, c, 0).tag = 0
    BY DEF Resolved, Event
  <2>4. \A e \in due : \/ \E i \in Ids : e = Appeared(i, surface.items[i]) /\ surface.items[i] # None
                       \/ \E i \in Ids, c \in AnyContent :
                            /\ e = Changed(i, surface.items[i]) /\ surface.items[i] # None
                            /\ Holds(was, i, c)
                       \/ \E h \in Ids \X AnyContent :
                            e = Resolved(h[1], h[2], 0) /\ Holds(was, h[1], h[2])
    BY DEF Diff, DiffById
  <2> QED BY <1>5, <2>1, <2>2, <2>3, <2>4
<1>8. Prefix' /\ Stamped' /\ History' /\ Alternate'
  BY <1>1, <1>2 DEF Prefix, Stamped, History, HasAppeared, Logged, Alternate
<1>9. Owed'
  <2>1. \A e \in told \cup due :
          /\ e.kind = "resolved" => e.tag = 0
          /\ e.kind \in {"appeared", "changed"} => surface.items[e.id] # None
          /\ e.kind \in {"changed", "resolved"} => HasAppeared(e.id)
          /\ IsMarker(e) => /\ e.tag = MarkerCount(log) + 1
                            /\ e.kind = "not_observed" <=> ~surface.up
                            /\ surface.up <=> Down(log)
    BY <1>6, <1>7 DEF IsMarker
  <2>2. \A i : HasAppeared(i)' <=> HasAppeared(i)
    BY <1>2 DEF HasAppeared, Logged
  <2> HIDE DEF was, told, due
  <2> QED BY <1>2, <2>1, <2>2 DEF Owed, Busy
<1>10. surface.up => NoneLingers'
  <2> SUFFICES ASSUME surface.up, NEW i \in Ids, NEW c \in AnyContent,
                      surface.items[i] = None, Holds(log, i, c)
               PROVE  Resolved(i, c, 0) \in told \cup due
    BY <1>2 DEF NoneLingers
  <2>1. /\ <<i, c>> \in Ids \X AnyContent /\ <<i, c>>[1] = i /\ <<i, c>>[2] = c
        /\ Holds(was, i, c)
    BY <1>3
  <2>2. Resolved(i, c, 0) \in DiffById(was, surface.items)
    BY <2>1 DEF DiffById
  <2> QED BY <2>2 DEF Diff
<1>11. surface.up => AllShown'
  <2> SUFFICES ASSUME surface.up, NEW i \in Ids, surface.items[i] # None
               PROVE  \/ Logged(Appeared(i, surface.items[i]))
                      \/ Logged(Changed(i, surface.items[i]))
                      \/ Appeared(i, surface.items[i]) \in due
                      \/ Changed(i, surface.items[i]) \in due
    BY <1>2 DEF AllShown, Shown, Logged
  <2>1. CASE \A c \in AnyContent : ~Holds(was, i, c)
    BY <2>1 DEF Diff, DiffById
  <2>2. CASE \E c \in AnyContent \ {surface.items[i]} : Holds(was, i, c)
    BY <2>2 DEF Diff
  <2>3. CASE Holds(was, i, surface.items[i])
    BY <1>5, <2>3
  <2> QED BY <2>1, <2>2, <2>3
<1>12. (Down(log) <=> ~surface.up) \/ \E e \in told : IsMarker(e)
  <2>1. CASE surface.up <=> Down(log)
    <3>1. Marker(IF surface.up THEN "observed" ELSE "not_observed", MarkerCount(was)) \in told
      <4>1. surface.up \in BOOLEAN
        BY <1>1 DEF TypeOK, Surfaces
      <4>2. Down(was) \in BOOLEAN
        BY DEF Down
      <4>3. surface.up = Down(was)
        BY <1>3, <2>1, <4>1, <4>2
      <4> QED BY <4>3 DEF Notices
    <3> QED BY <1>6, <3>1
  <2>2. CASE ~(surface.up <=> Down(log))
    BY <2>2
  <2> QED BY <2>1, <2>2
<1>13. Complete'
  <2>1. Down(log)' <=> Down(log)
    BY <1>2
  <2> HIDE DEF was, told, due
  <2> QED BY <1>2, <1>10, <1>11, <1>12, <2>1 DEF Complete
<1> QED BY <1>8, <1>9, <1>13

-------------------------------------------------------------------------------
(* The landing *)

\* What is on the log stays on it, and what landed is.
LEMMA LandedLog ==
  ASSUME TypeOK, NEW e, NEW a, Landing(e, a)
  PROVE  /\ \A n \in DOMAIN log : n \in DOMAIN log' /\ log'[n] = log[n]
         /\ \A f : Logged(f) => Logged(f)'
         /\ e.kind # "resolved" => Logged(e)'
         /\ \A n \in DOMAIN log' : \/ n \in DOMAIN log
                                   \/ log'[n] = a /\ n = Len(log) + 1
<1>1. log \in Seq(Events) /\ a \in Events
  BY DEF TypeOK, Landing
<1>2. CASE log' = log
  <2>1. e.kind # "resolved" => Logged(e)
    <3>1. Append(log, a) # log
      <4>1. Len(Append(log, a)) = Len(log) + 1 /\ Len(log) \in Nat
        BY <1>1
      <4> QED BY <4>1
    <3> QED BY <1>2, <3>1 DEF Landing
  <2> QED BY <1>2, <2>1 DEF Logged
<1>3. CASE log' = Append(log, a)
  <2>1. /\ \A n \in DOMAIN log : n \in DOMAIN log' /\ log'[n] = log[n]
        /\ Len(log) + 1 \in DOMAIN log' /\ log'[Len(log) + 1] = a
        /\ \A n \in DOMAIN log' : \/ n \in DOMAIN log
                                  \/ log'[n] = a /\ n = Len(log) + 1
    BY <1>1, <1>3
  <2>2. e.kind # "resolved" => a = e
    BY DEF Landing
  <2>3. \A f : Logged(f) => Logged(f)'
    BY <2>1 DEF Logged
  <2>4. e.kind # "resolved" => Logged(e)'
    BY <2>1, <2>2 DEF Logged
  <2> QED BY <2>1, <2>3, <2>4
<1> QED BY <1>2, <1>3 DEF Landing

\* What landed is what was owed, but for the number of a retry.
LEMMA LandedKind ==
  ASSUME TypeOK, Owed, NEW e, NEW a, Landing(e, a)
  PROVE  /\ a.kind = e.kind /\ a.id = e.id
         /\ e.kind # "resolved" => a = e
         /\ a.kind = "resolved" => a.tag <= Len(log)
<1>1. Retried(e).kind = "resolved" /\ Retried(e).id = e.id /\ Retried(e).tag = Len(log)
  BY DEF Retried, Resolved, Event
<1>2. Len(log) \in Nat
  BY DEF TypeOK
<1>3. e.kind = "resolved" => e.tag = 0
  BY DEF Landing, Owed
<1>4. a = e \/ (e.kind = "resolved" /\ a = Retried(e))
  BY DEF Landing
<1> QED BY <1>1, <1>2, <1>3, <1>4

\* The markers after a landing.
LEMMA LandedMarkers ==
  ASSUME TypeOK, Owed, NEW e, NEW a, Landing(e, a)
  PROVE  /\ ~IsMarker(e) => /\ Markers(log') = Markers(log)
                            /\ MarkerCount(log') = MarkerCount(log)
                            /\ Down(log') <=> Down(log)
         /\ IsMarker(e) => /\ Markers(log') = Markers(log) \cup {Len(log) + 1}
                           /\ MarkerCount(log') = MarkerCount(log) + 1
                           /\ Down(log') <=> e.kind = "not_observed"
                           /\ log'[Len(log) + 1] = e
<1>1. log \in Seq(Events) /\ a \in Events /\ (IsMarker(a) <=> IsMarker(e))
  BY LandedKind DEF TypeOK, Landing, IsMarker
<1>2. CASE log' = Append(log, a)
  <2>1. IsMarker(e) => a = e
    BY LandedKind DEF IsMarker
  <2>2. log'[Len(log) + 1] = a
    BY <1>1, <1>2
  <2> QED BY <1>1, <1>2, <2>1, <2>2, MarkersAppend
<1>3. CASE log' = log /\ e.kind \in {"appeared", "changed"}
  BY <1>3 DEF IsMarker
<1> QED BY <1>2, <1>3 DEF Landing

\* The log stays in order when an owed event lands.
LEMMA LandHistory ==
  ASSUME IngestInv, NEW e, NEW a, Landing(e, a)
  PROVE  (Prefix /\ Stamped /\ History)'
<1>1. TypeOK /\ Owed /\ Stamped /\ History /\ e \in ingest.owed
  BY DEF IngestInv, Landing
<1>2. /\ \A n \in DOMAIN log : n \in DOMAIN log' /\ log'[n] = log[n]
      /\ \A f : Logged(f) => Logged(f)'
      /\ \A n \in DOMAIN log' : \/ n \in DOMAIN log
                                \/ log'[n] = a /\ n = Len(log) + 1
  BY <1>1, LandedLog
<1>3. \A i : HasAppeared(i) => HasAppeared(i)'
  BY <1>2 DEF HasAppeared
<1>4. a.kind = e.kind /\ a.id = e.id /\ (a.kind = "resolved" => a.tag <= Len(log))
  BY <1>1, LandedKind
<1>5. Prefix'
  BY DEF Prefix, Landing
<1>6. Stamped'
  <2>1. log \in Seq(Events) /\ Len(log) \in Nat /\ MarkerCount(log) \in Nat /\ a \in Events
    BY <1>1, MarkersFinite DEF TypeOK, Landing
  <2>2. \A n \in DOMAIN log : n \in Nat /\ n <= Len(log)
    BY <2>1
  <2>3. MarkerCount(log') >= MarkerCount(log)
    BY <1>1, <2>1, LandedMarkers
  <2>4. IsMarker(a) => a.tag <= MarkerCount(log')
    <3> SUFFICES ASSUME IsMarker(a) PROVE a.tag <= MarkerCount(log')
      OBVIOUS
    <3>1. IsMarker(e) /\ a = e
      BY <1>1, <1>4, LandedKind DEF IsMarker
    <3>2. e.tag = MarkerCount(log) + 1
      BY <1>1, <3>1 DEF Owed
    <3>3. MarkerCount(log') = MarkerCount(log) + 1
      BY <1>1, <3>1, LandedMarkers
    <3> QED BY <2>1, <3>1, <3>2, <3>3
  <2>5. a.kind = "resolved" => a.tag < Len(log) + 1
    <3>1. a.kind = "resolved" => a.tag \in Nat
      BY <2>1 DEF Events
    <3> QED BY <1>4, <2>1, <3>1
  <2>6. ASSUME NEW n \in DOMAIN log
        PROVE  /\ log[n].kind = "resolved" => log[n].tag < n
               /\ IsMarker(log[n]) => log[n].tag <= MarkerCount(log')
    <3>1. IsMarker(log[n]) => log[n].tag \in Nat /\ log[n].tag <= MarkerCount(log)
      BY <1>1, <2>1 DEF Stamped, IsMarker, Events
    <3>2. MarkerCount(log') \in Nat
      BY <1>1, <2>1, LandedMarkers
    <3>3. IsMarker(log[n]) => log[n].tag <= MarkerCount(log')
      BY <2>1, <2>3, <3>1, <3>2
    <3> QED BY <1>1, <3>3 DEF Stamped
  <2>7. ASSUME NEW n \in DOMAIN log'
        PROVE  /\ log'[n].kind = "resolved" => log'[n].tag < n
               /\ IsMarker(log'[n]) => log'[n].tag <= MarkerCount(log')
    <3>1. CASE n \in DOMAIN log
      BY <1>2, <2>6, <3>1
    <3>2. CASE log'[n] = a /\ n = Len(log) + 1
      BY <2>4, <2>5, <3>2
    <3> QED BY <1>2, <3>1, <3>2
  <2> QED BY <2>7 DEF Stamped, IsMarker
<1>7. History'
  <2>1. a.kind \in {"changed", "resolved"} => HasAppeared(a.id)
    BY <1>1, <1>4 DEF Owed
  <2> QED BY <1>1, <1>2, <1>3, <2>1 DEF History
<1> QED BY <1>5, <1>6, <1>7

\* Of two markers owed there is one.
LEMMA OneMarkerOwed ==
  ASSUME TypeOK, Owed, NEW e \in ingest.owed, NEW f \in ingest.owed, IsMarker(e), IsMarker(f)
  PROVE  e = f
<1>1. e \in Events /\ f \in Events
  BY DEF TypeOK, Ingests
<1>2. e.tag = f.tag /\ (e.kind = "not_observed" <=> f.kind = "not_observed")
  BY DEF Owed
<1>3. e.kind = f.kind
  BY <1>2 DEF IsMarker
<1> QED BY <1>1, <1>2, <1>3 DEF Events, IsMarker

\* What is still owed after a landing is still right.
LEMMA LandOwed ==
  ASSUME IngestInv, NEW e, NEW a, Landing(e, a)
  PROVE  Owed'
<1>1. /\ TypeOK /\ Owed /\ e \in ingest.owed /\ Busy'
      /\ ingest'.saw = ingest.saw /\ ingest'.owed = ingest.owed \ {e}
  BY DEF IngestInv, Landing, Busy
<1>2. \A i : HasAppeared(i) => HasAppeared(i)'
  BY <1>1, LandedLog DEF HasAppeared
<1>3. ASSUME NEW f \in ingest.owed \ {e}
      PROVE  /\ f.kind = "resolved" => f.tag = 0
             /\ f.kind \in {"appeared", "changed"} => ingest.saw.items[f.id] # None
             /\ f.kind \in {"changed", "resolved"} => HasAppeared(f.id)'
             /\ IsMarker(f) => /\ f.tag = MarkerCount(log') + 1
                               /\ f.kind = "not_observed" <=> ~ingest.saw.up
                               /\ ingest.saw.up <=> Down(log')
  <2>1. IsMarker(f) => ~IsMarker(e)
    BY <1>1, OneMarkerOwed
  <2>2. ~IsMarker(e) => MarkerCount(log') = MarkerCount(log) /\ (Down(log') <=> Down(log))
    BY <1>1, LandedMarkers
  <2> QED BY <1>1, <1>2, <2>1, <2>2 DEF Owed
<1> QED BY <1>1, <1>3 DEF Owed

\* What is still wrong after a landing is still owed.
LEMMA LandComplete ==
  ASSUME IngestInv, NEW e, NEW a, Landing(e, a)
  PROVE  Complete'
<1>1. /\ TypeOK /\ Owed /\ Complete /\ e \in ingest.owed /\ Busy
      /\ ingest'.saw = ingest.saw /\ ingest'.owed = ingest.owed \ {e}
      /\ log \in Seq(Events) /\ e \in Events /\ a \in Events
  BY DEF IngestInv, Landing, TypeOK
<1>2. a.kind = e.kind /\ a.id = e.id /\ (e.kind # "resolved" => a = e)
  BY <1>1, LandedKind
<1>3. ASSUME ingest.saw.up, NEW i \in Ids, NEW c \in AnyContent,
             ingest.saw.items[i] = None, Holds(log', i, c)
      PROVE  Resolved(i, c, 0) \in ingest.owed \ {e}
  <2>1. Resolved(i, c, 0).kind = "resolved" /\ Resolved(i, c, 0).id = i
    BY DEF Resolved, Event
  <2>2. CASE log' = Append(log, a)
    <3>1. IF a.id = i THEN a.kind \in {"appeared", "changed"} /\ a.content = c
                      ELSE Holds(log, i, c)
      BY <1>1, <1>3, <2>2, HoldsAppend
    <3>2. e.kind \in {"appeared", "changed"} => e.id # i
      BY <1>1, <1>3 DEF Owed
    <3>3. a.id # i /\ Holds(log, i, c)
      BY <1>2, <3>1, <3>2
    <3>4. Resolved(i, c, 0) \in ingest.owed
      BY <1>1, <1>3, <3>3 DEF Complete, NoneLingers
    <3> QED BY <1>2, <2>1, <3>3, <3>4
  <2>3. CASE log' = log /\ e.kind \in {"appeared", "changed"}
    <3>1. Resolved(i, c, 0) \in ingest.owed
      BY <1>1, <1>3, <2>3 DEF Complete, NoneLingers
    <3> QED BY <2>1, <2>3, <3>1
  <2> QED BY <2>2, <2>3 DEF Landing
<1>4. \A f : f.kind # "resolved" /\ Shown(f) => Logged(f)' \/ f \in ingest.owed \ {e}
  BY <1>1, LandedLog DEF Shown
<1>5. ASSUME ingest.saw.up, NEW i \in Ids, ingest.saw.items[i] # None
      PROVE  Shown(Appeared(i, ingest.saw.items[i]))' \/ Shown(Changed(i, ingest.saw.items[i]))'
  <2>a. PICK p : p = Appeared(i, ingest.saw.items[i])
    OBVIOUS
  <2>b. PICK q : q = Changed(i, ingest.saw.items[i])
    OBVIOUS
  <2>1. p.kind # "resolved" /\ q.kind # "resolved"
    BY <2>a, <2>b DEF Appeared, Changed, Event
  <2>2. Shown(p) \/ Shown(q)
    BY <1>1, <1>5, <2>a, <2>b DEF Complete, AllShown
  <2>3. p = Appeared(i, ingest.saw.items[i])' /\ q = Changed(i, ingest.saw.items[i])'
    BY <1>1, <2>a, <2>b DEF Appeared, Changed, Event
  <2>4. \/ Logged(p)' \/ p \in ingest.owed \ {e}
        \/ Logged(q)' \/ q \in ingest.owed \ {e}
    BY <1>4, <2>1, <2>2
  <2> QED BY <1>1, <2>3, <2>4 DEF Shown
<1>6. (Down(log') <=> ~ingest.saw.up) \/ \E f \in ingest.owed \ {e} : IsMarker(f)
  <2>1. CASE IsMarker(e)
    BY <1>1, <2>1, LandedMarkers DEF Owed
  <2>2. CASE ~IsMarker(e)
    BY <1>1, <2>2, LandedMarkers DEF Complete
  <2> QED BY <2>1, <2>2
<1>7. ingest.saw.up => NoneLingers' /\ AllShown'
  BY <1>1, <1>3, <1>5 DEF NoneLingers, AllShown
<1> QED BY <1>1, <1>6, <1>7 DEF Complete

\* A marker that lands is not the one before it, and the first is an outage.
LEMMA LandAlternates ==
  ASSUME IngestInv, NEW e, NEW a, Landing(e, a)
  PROVE  Alternate'
<1>1. /\ TypeOK /\ Owed /\ Alternate /\ e \in ingest.owed /\ log \in Seq(Events)
      /\ ingest.saw.up \in BOOLEAN
  BY DEF IngestInv, Landing, TypeOK, Ingests, Surfaces
<1>2. \A n \in DOMAIN log : n \in DOMAIN log' /\ log'[n] = log[n]
  BY <1>1, LandedLog
<1>3. /\ \A n \in Markers(log) : n \in DOMAIN log /\ log'[n] = log[n] /\ IsMarker(log[n])
      /\ \A n \in Markers(log) : n \in Nat /\ n <= Len(log)
      /\ Len(log) \in Nat
  BY <1>1, <1>2 DEF Markers
<1>4. CASE ~IsMarker(e)
  <2>1. Markers(log') = Markers(log)
    BY <1>1, <1>4, LandedMarkers
  <2> QED BY <1>1, <1>3, <2>1 DEF Alternate
<1>5. CASE IsMarker(e)
  <2> DEFINE N == Len(log) + 1
  <2>1. Markers(log') = Markers(log) \cup {N} /\ log'[N] = e
    BY <1>1, <1>5, LandedMarkers
  <2>2. (e.kind = "not_observed" <=> ~ingest.saw.up) /\ (ingest.saw.up <=> Down(log))
    BY <1>1, <1>5 DEF Owed
  <2>3. N \in Nat /\ \A n \in Markers(log) : n < N
    BY <1>3
  <2> HIDE DEF N
  <2>4. ASSUME NEW m \in Markers(log), \A l \in Markers(log) : l <= m
        PROVE  log[m].kind # e.kind
    <3>1. log[m].kind = "not_observed" <=> Down(log)
      <4>1. \A l \in Markers(log) : (\A j \in Markers(log) : j <= l) => l = m
        BY <1>3, <2>4
      <4> QED BY <2>4, <4>1 DEF Down
    <3> QED BY <1>1, <2>2, <3>1
  <2>5. Markers(log) = {} => e.kind = "not_observed"
    BY <1>1, <2>2 DEF Down
  <2>6. ASSUME NEW m \in Markers(log'), NEW n \in Markers(log'), m < n,
               \A l \in Markers(log') : ~(m < l /\ l < n)
        PROVE  log'[m].kind # log'[n].kind
    <3>1. CASE n \in Markers(log)
      <4>1. m \in Markers(log)
        BY <1>3, <2>1, <2>3, <2>6, <3>1
      <4> QED BY <1>1, <1>3, <2>1, <2>6, <3>1, <4>1 DEF Alternate
    <3>2. CASE n = N
      <4>1. m \in Markers(log)
        BY <2>1, <2>3, <2>6, <3>2
      <4>2. \A l \in Markers(log) : l <= m
        BY <1>3, <2>1, <2>3, <2>6, <3>2, <4>1
      <4> QED BY <1>3, <2>1, <2>4, <3>2, <4>1, <4>2
    <3> QED BY <2>1, <3>1, <3>2
  <2>7. ASSUME NEW n \in Markers(log'), \A l \in Markers(log') : n <= l
        PROVE  log'[n].kind = "not_observed"
    <3>1. CASE n \in Markers(log)
      BY <1>1, <1>3, <2>1, <2>7, <3>1 DEF Alternate
    <3>2. CASE n = N
      <4>1. Markers(log) = {}
        <5>1. ASSUME NEW l \in Markers(log) PROVE FALSE
          BY <1>3, <2>1, <2>3, <2>7, <3>2
        <5> QED BY <5>1
      <4> QED BY <2>1, <2>5, <3>2, <4>1
    <3> QED BY <2>1, <3>1, <3>2
  <2> QED BY <2>6, <2>7 DEF Alternate
<1> QED BY <1>4, <1>5

-------------------------------------------------------------------------------
(* The theorems *)

\* Every step keeps the invariant.
LEMMA IngestStep == IngestInv /\ [Next]_vars => IngestInv'
<1> SUFFICES ASSUME IngestInv, [Next]_vars PROVE IngestInv'
  OBVIOUS
<1>1. (TypeOK /\ OwedKinds)'
  BY InboxType DEF IngestInv
<1>2. (Prefix /\ Stamped /\ History /\ Owed /\ Complete /\ Alternate)'
  <2>1. CASE Elsewhere
    BY <2>1, ElsewhereStep
  <2>2. CASE ListPrior \/ EndIngest \/ AbortIngest
    BY <2>2, ListStep
  <2>3. CASE ReadSurface
    BY <2>3, ReadStep
  <2>4. ASSUME NEW e \in ingest.owed, Collide(e)
        PROVE  (Prefix /\ Stamped /\ History /\ Owed /\ Complete /\ Alternate)'
    BY <2>4, CollideStep
  <2>5. ASSUME NEW e \in ingest.owed, Land(e) \/ Disambiguate(e)
        PROVE  (Prefix /\ Stamped /\ History /\ Owed /\ Complete /\ Alternate)'
    <3>1. PICK a \in Events : Landing(e, a)
      BY <2>5, Landings DEF IngestInv
    <3> QED BY <3>1, LandHistory, LandOwed, LandComplete, LandAlternates
  <2> QED BY <2>1, <2>2, <2>3, <2>4, <2>5, Steps DEF IngestInv, Ingest
<1> QED BY <1>1, <1>2 DEF IngestInv

\* The invariant holds at first.
LEMMA InitIngest == Init => IngestInv
<1> SUFFICES ASSUME Init PROVE IngestInv
  OBVIOUS
<1>1. log = <<>> /\ ingest.at = "idle" /\ ingest.owed = {}
  BY DEF Init, NoIngest
<1>2. DOMAIN log = {} /\ Markers(log) = {}
  BY <1>1 DEF Markers
<1>3. TypeOK /\ OwedKinds
  BY <1>1, InitInbox DEF OwedKinds
<1> QED BY <1>1, <1>2, <1>3 DEF IngestInv, Prefix, Stamped, History, Owed, Busy, Complete, Alternate

LEMMA IngestCorrect == Spec => []IngestInv
BY InitIngest, IngestStep, PTL DEF Spec

\* After an ingest no item the surface has dropped is in the inbox with a content
\* of the console's own repo, whatever was dropped before, whatever was reflected
\* meanwhile, and whichever contents of other repos its id had.
THEOREM NothingIsLeftOpen == Spec => []NothingLingers
<1>1. IngestInv => NothingLingers
  <2> SUFFICES ASSUME IngestInv, Ingested, ingest.saw.up, NEW i \in Ids, NEW c \in Own,
                      Shows(log, i, c), ingest.saw.items[i] = None
               PROVE  FALSE
    BY DEF NothingLingers
  <2>1. c \in AnyContent /\ Holds(log, i, c)
    BY IdsAssumption DEF IdsAssumption, Holds
  <2>2. Resolved(i, c, 0) \in ingest.owed
    BY <2>1 DEF IngestInv, Complete, NoneLingers, Busy, Ingested
  <2> QED BY <2>2 DEF Ingested
<1> QED BY <1>1, IngestCorrect, PTL

\* After an ingest every item the surface lists has been shown as it lists it.
THEOREM NewsIsTold == Spec => []NewsIsShown
<1>1. IngestInv => NewsIsShown
  BY DEF IngestInv, NewsIsShown, Ingested, Complete, Busy, AllShown, Shown
<1> QED BY <1>1, IngestCorrect, PTL

\* Each outage is told once, and its end.
THEOREM OutagesAreTold == Spec => []OutagesTold
<1>1. IngestInv => OutagesTold
  BY DEF IngestInv, OutagesTold, Ingested, Complete, Busy, Alternate
<1> QED BY <1>1, IngestCorrect, PTL

\* What a step does to the log: nothing, or one event, which reopens its item,
\* is of a valve, or is of an id that has appeared.
LEMMA LogSteps ==
  ASSUME IngestInv, [Next]_vars
  PROVE  \/ log' = log
         \/ \E a \in Events : /\ log' = Append(log, a)
                              /\ a.kind \in {"changed", "resolved"} => HasAppeared(a.id)
<1> USE DEF IngestInv
<1>1. CASE Elsewhere
  BY <1>1 DEF Elsewhere
<1>2. CASE ListPrior \/ ReadSurface \/ EndIngest \/ AbortIngest
  BY <1>2 DEF ListPrior, ReadSurface, EndIngest, AbortIngest
<1>3. ASSUME NEW e \in ingest.owed, Collide(e) PROVE log' = log
  BY <1>3 DEF Collide
<1>4. ASSUME NEW e \in ingest.owed, Land(e) \/ Disambiguate(e)
      PROVE  \/ log' = log
             \/ \E a \in Events : /\ log' = Append(log, a)
                                  /\ a.kind \in {"changed", "resolved"} => HasAppeared(a.id)
  <2>1. PICK a \in Events : Landing(e, a)
    BY <1>4, Landings
  <2>2. a.kind = e.kind /\ a.id = e.id
    BY <2>1, LandedKind
  <2>3. a.kind \in {"changed", "resolved"} => HasAppeared(a.id)
    BY <2>2 DEF Owed
  <2> QED BY <2>1, <2>3 DEF Landing
<1> QED BY <1>1, <1>2, <1>3, <1>4, Steps DEF Ingest

\* An escalated item stays open until an event on its id.
LEMMA EscalationAppend ==
  ASSUME TypeOK, NEW a \in Events, log' = Append(log, a), NEW i
  PROVE  /\ a.id # i /\ ShowsEscalation(i) => ShowsEscalation(i)'
         /\ a.id = i /\ a.kind = "escalated" => ShowsEscalation(i)'
<1>1. /\ DOMAIN log' = 1 .. Len(log) + 1 /\ DOMAIN log = 1 .. Len(log) /\ Len(log) \in Nat
      /\ log'[Len(log) + 1] = a /\ \A n \in 1 .. Len(log) : log'[n] = log[n]
  BY DEF TypeOK
<1>2. ASSUME a.id # i, ShowsEscalation(i) PROVE ShowsEscalation(i)'
  <2>1. PICK n \in DOMAIN log : /\ LatestAt(log, n)
                                /\ log[n].id = i /\ log[n].kind = "escalated"
    BY <1>2 DEF ShowsEscalation
  <2>2. ASSUME NEW m \in DOMAIN log', m > n PROVE log'[m].id # i
    <3>1. m \in 1 .. Len(log) \/ m = Len(log) + 1
      BY <1>1
    <3> QED BY <1>1, <1>2, <2>1, <2>2, <3>1 DEF LatestAt
  <2>3. n \in DOMAIN log' /\ log'[n] = log[n]
    BY <1>1
  <2>4. LatestAt(log', n)
    BY <2>1, <2>2, <2>3 DEF LatestAt
  <2> QED BY <2>1, <2>3, <2>4 DEF ShowsEscalation
<1>3. ASSUME a.id = i, a.kind = "escalated" PROVE ShowsEscalation(i)'
  <2>1. LatestAt(log', Len(log) + 1) /\ Len(log) + 1 \in DOMAIN log'
    BY <1>1 DEF LatestAt
  <2> QED BY <1>1, <1>3, <2>1 DEF ShowsEscalation
<1> QED BY <1>2, <1>3

\* An escalation the surface has not listed is in the inbox: nothing else
\* writes of its id.
THEOREM EscalationsStay == Spec => []UnlistedEscalationStays
<1>1. Init => UnlistedEscalationStays
  BY DEF Init, UnlistedEscalationStays, Logged
<1>2. IngestInv /\ UnlistedEscalationStays /\ [Next]_vars => UnlistedEscalationStays'
  <2> SUFFICES ASSUME IngestInv, UnlistedEscalationStays, [Next]_vars,
                      NEW i \in Escalations, NEW s \in Settings,
                      Logged(Escalated(i, s))', ~HasAppeared(i)'
               PROVE  ShowsEscalation(i)'
    BY DEF UnlistedEscalationStays, HasAppeared
  <2>1. TypeOK /\ log \in Seq(Events)
    BY DEF IngestInv, TypeOK
  <2>2. CASE log' = log
    <3>1. Logged(Escalated(i, s)) /\ ~HasAppeared(i)
      BY <2>2 DEF Logged, HasAppeared
    <3>2. ShowsEscalation(i)
      BY <3>1 DEF UnlistedEscalationStays, HasAppeared
    <3> QED BY <2>2, <3>2 DEF ShowsEscalation
  <2>3. ASSUME NEW a \in Events, log' = Append(log, a),
               a.kind \in {"changed", "resolved"} => HasAppeared(a.id)
        PROVE  ShowsEscalation(i)'
    <3>1. /\ \A n \in DOMAIN log : n \in DOMAIN log' /\ log'[n] = log[n]
          /\ Len(log) + 1 \in DOMAIN log' /\ log'[Len(log) + 1] = a
          /\ \A n \in DOMAIN log' : n \in DOMAIN log \/ log'[n] = a
      BY <2>1, <2>3
    <3>2. ~HasAppeared(i)
      BY <3>1 DEF HasAppeared, Logged
    <3>3. CASE a.id # i
      <4>1. a # Escalated(i, s)
        BY <3>3 DEF Escalated, Event
      <4>2. Logged(Escalated(i, s))
        BY <3>1, <4>1 DEF Logged
      <4>3. ShowsEscalation(i)
        BY <3>2, <4>2 DEF UnlistedEscalationStays, HasAppeared
      <4> QED BY <2>1, <2>3, <3>3, <4>3, EscalationAppend
    <3>4. CASE a.id = i
      <4>1. a.kind \notin {"changed", "resolved"}
        BY <2>3, <3>2, <3>4
      <4>2. a.kind # "appeared"
        <5>1. a.kind = "appeared" => a = Appeared(i, a.content) /\ a.content \in AnyContent
          BY <3>4 DEF Events, Appeared, Event
        <5>2. \A c \in AnyContent : a # Appeared(i, c)
          <6>1. \A c \in AnyContent : ~Logged(Appeared(i, c))'
            BY DEF HasAppeared
          <6>2. ASSUME NEW c \in AnyContent, a = Appeared(i, c) PROVE FALSE
            <7>1. \E n \in DOMAIN log' : log'[n] = Appeared(i, c)
              BY <3>1, <6>2
            <7>2. Appeared(i, c)' = Appeared(i, c)
              BY DEF Appeared, Event
            <7> QED BY <6>1, <7>1, <7>2 DEF Logged
          <6> QED BY <6>2
        <5> QED BY <5>1, <5>2
      <4>3. i \in Ids /\ i \notin Valves /\ i # None
        BY IdsAssumption DEF IdsAssumption
      <4>4. a.kind = "escalated"
        BY <3>4, <4>1, <4>2, <4>3 DEF Events
      <4> QED BY <2>1, <2>3, <3>4, <4>4, EscalationAppend
    <3> QED BY <3>3, <3>4
  <2> QED BY <2>2, <2>3, LogSteps
<1> QED BY <1>1, <1>2, IngestCorrect, PTL DEF Spec

\* A pass that is about to finalize has logged the outcome.
LoggedOutcome ==
  \A k \in Consoles : reflect[k].at = "logged" /\ reflect[k].todo # <<>> =>
    Logged(Reflected(Head(reflect[k].todo).id))

\* Of a console's steps, only the one that logs the outcome ends at "logged".
LEMMA PassSteps ==
  ASSUME TypeOK, NEW j \in Consoles, Reflect(j) \/ AbortPass(j), NEW k \in Consoles
  PROVE  \/ reflect'[k] = reflect[k]
         \/ reflect'[k].at # "logged"
         \/ k = j /\ LogOutcome(k)
<1>1. reflect \in [Consoles -> Passes] /\ reflect[j] \in Passes
  BY DEF TypeOK
<1>2. PassOn(j) => reflect'[k] = reflect[k] \/ reflect'[k].at # "logged"
  <2>1. NoPass.at = "idle"
    BY DEF NoPass
  <2> QED BY <1>1, <2>1 DEF PassOn
<1>3. ASSUME NEW step \in {"recorded", "claimed"}, StepTo(j, step)
      PROVE  reflect'[k] = reflect[k] \/ reflect'[k].at # "logged"
  BY <1>1, <1>3 DEF StepTo, Passes
<1>4. CASE Record(j)
  BY <1>2, <1>3, <1>4 DEF Record
<1>5. CASE Claim(j)
  BY <1>3, <1>5 DEF Claim
<1>6. CASE LogOutcome(j)
  <2>1. reflect' = [reflect EXCEPT ![j].at = "logged"]
    BY <1>6 DEF LogOutcome, StepTo
  <2> QED BY <1>1, <1>6, <2>1
<1>7. CASE Finalize(j) \/ SurfaceEscalation(j)
  BY <1>2, <1>7 DEF Finalize, SurfaceEscalation
<1>8. CASE FinalizeLost(j) \/ AbortPass(j)
  BY <1>1, <1>8 DEF FinalizeLost, AbortPass, NoPass
<1>9. CASE ReadJournal(j)
  BY <1>1, <1>9 DEF ReadJournal
<1> QED BY <1>4, <1>5, <1>6, <1>7, <1>8, <1>9 DEF Reflect

\* A row becomes completed when a pass that has logged the outcome finalizes.
LEMMA RowSteps ==
  ASSUME TypeOK, [Next]_vars, NEW i \in Valves, rows'[i].status = "completed"
  PROVE  \/ rows[i].status = "completed"
         \/ \E k \in Consoles : Finalize(k) /\ Head(reflect[k].todo).id = i
<1>1. rows \in [Valves -> Rows] /\ rows[i] \in Rows
  BY DEF TypeOK
<1>2. CASE UNCHANGED rows
  BY <1>2
<1>3. ASSUME NEW j \in Valves, NEW s \in {"executing", "failed"},
             rows' = [rows EXCEPT ![j].status = s]
      PROVE  rows[i].status = "completed"
  BY <1>1, <1>3 DEF Rows
<1>4. ASSUME NEW k \in Consoles, Record(k) PROVE rows[i].status = "completed"
  <2>1. rows' = rows \/ \E j, r : rows' = [rows EXCEPT ![j] = r] /\ r.status = "pending"
    <3> DEFINE d == Head(reflect[k].todo)
    <3>1. rows' = rows \/ rows' = [rows EXCEPT ![d.id] = [status |-> "pending", tag |-> d.tag]]
      BY <1>4 DEF Record
    <3>2. [status |-> "pending", tag |-> d.tag].status = "pending"
      OBVIOUS
    <3> QED BY <3>1, <3>2
  <2> QED BY <1>1, <2>1
<1>5. ASSUME NEW k \in Consoles, Claim(k) PROVE rows[i].status = "completed"
  <2>1. Head(reflect[k].todo).id \in Valves
    BY <1>5, FacedType DEF Claim, Resolutions
  <2> QED BY <1>3, <1>5, <2>1 DEF Claim
<1>6. ASSUME NEW k \in Consoles, Finalize(k), Head(reflect[k].todo).id # i
      PROVE  rows[i].status = "completed"
  BY <1>1, <1>6 DEF Finalize
<1>7. ASSUME NEW j \in Valves, Recover(j) PROVE rows[i].status = "completed"
  BY <1>3, <1>7 DEF Recover
<1> QED BY <1>2, <1>4, <1>5, <1>6, <1>7
        DEF Next, Ingest, ListPrior, ReadSurface, EndIngest, Land, Collide, Disambiguate,
            AbortIngest, Reflect, ReadJournal, LogOutcome, FinalizeLost, SurfaceEscalation,
            AbortPass, ChangeSurface, Decide, vars

\* Passes that are about to finalize, and rows that are completed, have their
\* outcome in the log.
LEMMA OutcomesLogged == Spec => [](LoggedOutcome /\ CompletedIsReflected)
<1> DEFINE Inv == LoggedOutcome /\ CompletedIsReflected
<1>1. Init => Inv
  BY DEF Init, LoggedOutcome, CompletedIsReflected, NoPass, NoRow
<1>2. IngestInv /\ Inv /\ [Next]_vars => Inv'
  <2> SUFFICES ASSUME IngestInv, LoggedOutcome, CompletedIsReflected, [Next]_vars PROVE Inv'
    OBVIOUS
  <2>1. TypeOK /\ log \in Seq(Events)
    BY DEF IngestInv, TypeOK
  <2>2. \A f : Logged(f) => Logged(f)'
    <3>1. \A n \in DOMAIN log : n \in DOMAIN log' /\ log'[n] = log[n]
      BY <2>1, LogSteps
    <3> QED BY <3>1 DEF Logged
  <2>3. ASSUME NEW k \in Consoles, reflect'[k].at = "logged", reflect'[k].todo # <<>>
        PROVE  Logged(Reflected(Head(reflect[k].todo).id))'
    <3>1. CASE reflect'[k] = reflect[k]
      <4>1. PICK f : f = Reflected(Head(reflect[k].todo).id)
        OBVIOUS
      <4>2. Logged(f) /\ f = Reflected(Head(reflect'[k].todo).id)
        BY <2>3, <3>1, <4>1 DEF LoggedOutcome, Reflected, Event
      <4> QED BY <2>2, <4>2 DEF Logged, Reflected, Event
    <3>2. CASE LogOutcome(k)
      <4>1. PICK f : f = Reflected(Head(reflect[k].todo).id)
        OBVIOUS
      <4>2. f \in Events
        BY <2>1, <3>2, <4>1, FacedType, EventTypes DEF LogOutcome, Resolutions
      <4>3. \E n \in DOMAIN log' : log'[n] = f
        BY <2>1, <3>2, <4>1, <4>2, AppendOnce DEF LogOutcome
      <4>4. reflect'[k].todo = reflect[k].todo
        BY <2>1, <3>2 DEF LogOutcome, StepTo, TypeOK, Passes
      <4> QED BY <4>1, <4>3, <4>4 DEF Logged, Reflected, Event
    <3>3. \/ UNCHANGED reflect
          \/ \E j \in Consoles : Reflect(j) \/ AbortPass(j)
      BY DEF Next, Ingest, ListPrior, ReadSurface, EndIngest, Land, Collide, Disambiguate,
             AbortIngest, Recover, ChangeSurface, Decide, vars
    <3> QED BY <2>1, <2>3, <3>1, <3>2, <3>3, PassSteps
  <2>4. ASSUME NEW i \in Valves, rows'[i].status = "completed"
        PROVE  Logged(Reflected(i))'
    <3>1. rows[i].status = "completed" => Logged(Reflected(i))
      BY DEF CompletedIsReflected
    <3>2. ASSUME NEW k \in Consoles, Finalize(k), Head(reflect[k].todo).id = i
          PROVE  Logged(Reflected(i))
      BY <3>2 DEF Finalize, Finalizing, Facing, LoggedOutcome
    <3>3. Logged(Reflected(i))
      BY <2>1, <2>4, <3>1, <3>2, RowSteps
    <3>4. PICK f : f = Reflected(i)
      OBVIOUS
    <3> QED BY <2>2, <3>3, <3>4 DEF Logged, Reflected, Event
  <2> QED BY <2>3, <2>4 DEF LoggedOutcome, CompletedIsReflected
<1> QED BY <1>1, <1>2, IngestCorrect, PTL DEF Spec

\* A reflection that says completed has its outcome in the log, whoever
\* recovered its row meanwhile.
THEOREM CompletedReflections == Spec => []CompletedIsReflected
BY OutcomesLogged, PTL

-------------------------------------------------------------------------------
(* Rows of the command queue *)

\* A pass is at the row of the decision it faces.
AtRow(k) == reflect[k].at \in {"recorded", "claimed", "logged"}
RowOf(k) == Head(reflect[k].todo).id

\* Two passes are at different rows, and a row that has been recorded and not claimed
\* is its pass's to claim.
Attended ==
  \A k \in Consoles : AtRow(k) =>
    /\ reflect[k].todo # <<>> /\ Head(reflect[k].todo).kind = "resolve"
    /\ reflect[k].at = "recorded" => rows[RowOf(k)].status = "pending"
    /\ reflect[k].at # "recorded" => rows[RowOf(k)].status \in {"executing", "failed"}
    /\ \A j \in Consoles : j # k /\ AtRow(j) => RowOf(j) # RowOf(k)

\* The row a pass is at is a valve's.
LEMMA RowsAttended ==
  ASSUME TypeOK, Attended, NEW k \in Consoles, AtRow(k)
  PROVE  RowOf(k) \in Valves
<1>1. reflect[k] \in Passes /\ reflect[k].todo # <<>> /\ Head(reflect[k].todo).kind = "resolve"
  BY DEF TypeOK, Attended
<1>2. Head(reflect[k].todo) \in Decisions
  BY <1>1 DEF Passes
<1> QED BY <1>1, <1>2 DEF RowOf, Decisions, Resolutions, Escalates

\* A step of one pass leaves the others where they are.
OthersKept(k) ==
  \A j \in Consoles : j # k => reflect'[j] = reflect[j]

\* How the passes and the rows go on: a step is one pass's, or a recovery.
LEMMA AttendedSteps ==
  ASSUME TypeOK, [Next]_vars
  PROVE  \/ UNCHANGED <<reflect, rows>>
         \/ \E i \in Valves : Recover(i)
         \/ \E k \in Consoles : OthersKept(k) /\ (Reflect(k) \/ AbortPass(k))
<1>1. ASSUME NEW k \in Consoles, Reflect(k) \/ AbortPass(k) PROVE OthersKept(k)
  BY <1>1 DEF Reflect, AbortPass, OthersKept, ReadJournal, Record, Claim, LogOutcome, Finalize,
              FinalizeLost, SurfaceEscalation, PassOn, StepTo, TypeOK
<1> QED BY <1>1 DEF Next, Ingest, ListPrior, ReadSurface, EndIngest, Land, Collide, Disambiguate,
                    AbortIngest, ChangeSurface, Decide, vars

\* The pass that goes on: where it is, and at what row.
LEMMA OwnPass ==
  ASSUME TypeOK, NEW k \in Consoles
  PROVE  /\ PassOn(k) => ~AtRow(k)'
         /\ \A step : StepTo(k, step) => reflect'[k].at = step /\ reflect'[k].todo = reflect[k].todo
         /\ ReadJournal(k) \/ FinalizeLost(k) \/ AbortPass(k) => ~AtRow(k)'
<1>1. reflect \in [Consoles -> Passes]
  BY DEF TypeOK
<1>2. PassOn(k) => reflect'[k].at \in {"idle", "next"}
  BY <1>1 DEF PassOn, NoPass
<1>3. \A step : StepTo(k, step) => reflect'[k].at = step /\ reflect'[k].todo = reflect[k].todo
  BY <1>1 DEF StepTo, Passes
<1>4. ReadJournal(k) => reflect'[k].at = "next"
  BY <1>1 DEF ReadJournal
<1>5. FinalizeLost(k) \/ AbortPass(k) => reflect'[k].at = "idle"
  BY <1>1 DEF FinalizeLost, AbortPass, NoPass
<1> QED BY <1>2, <1>3, <1>4, <1>5 DEF AtRow

\* The status of a row, after it is set.
LEMMA StatusSet ==
  ASSUME TypeOK, NEW i \in Valves, NEW s, rows' = [rows EXCEPT ![i].status = s]
  PROVE  /\ rows'[i].status = s
         /\ \A j \in Valves : j # i => rows'[j] = rows[j]
<1> DEFINE r == [rows[i] EXCEPT !.status = s]
<1>1. rows \in [Valves -> Rows] /\ rows[i] \in Rows
  BY DEF TypeOK
<1>2. rows' = [rows EXCEPT ![i] = r] /\ r.status = s
  BY <1>1 DEF Rows
<1> HIDE DEF r
<1> QED BY <1>1, <1>2

\* The row of the pass that goes on.
LEMMA OwnRow ==
  ASSUME TypeOK, Attended, NEW k \in Consoles, Reflect(k) \/ AbortPass(k), AtRow(k)'
  PROVE  /\ reflect'[k].todo = reflect[k].todo
         /\ reflect[k].todo # <<>> /\ Head(reflect[k].todo).kind = "resolve"
         /\ reflect'[k].at = "recorded" => rows'[RowOf(k)].status = "pending"
         /\ reflect'[k].at # "recorded" => rows'[RowOf(k)].status \in {"executing", "failed"}
         /\ AtRow(k) \/ rows[RowOf(k)].status = "absent"
<1>1. CASE Record(k)
  <2> DEFINE d == Head(reflect[k].todo)
  <2>1. /\ Facing(k, "next", "resolve") /\ StepTo(k, "recorded") /\ rows[d.id].status = "absent"
        /\ rows' = [rows EXCEPT ![d.id] = [status |-> "pending", tag |-> d.tag]]
    BY <1>1, OwnPass DEF Record
  <2>2. d \in Resolutions /\ reflect[k].todo # <<>>
    BY <2>1, FacedType
  <2>3. d.id \in Valves /\ d.kind = "resolve"
    BY <2>2 DEF Resolutions
  <2>4. reflect'[k].at = "recorded" /\ reflect'[k].todo = reflect[k].todo
    BY <2>1, OwnPass
  <2>5. rows'[d.id] = [status |-> "pending", tag |-> d.tag]
    BY <2>1, <2>3 DEF TypeOK
  <2> QED BY <2>1, <2>2, <2>3, <2>4, <2>5 DEF RowOf
<1>2. CASE Claim(k)
  <2>1. /\ Facing(k, "recorded", "resolve") /\ StepTo(k, "claimed")
        /\ rows' = [rows EXCEPT ![RowOf(k)].status = "executing"]
    BY <1>2 DEF Claim, RowOf
  <2>2. AtRow(k) /\ reflect[k].todo # <<>> /\ Head(reflect[k].todo).kind = "resolve"
    BY <2>1 DEF Facing, AtRow
  <2>3. RowOf(k) \in Valves
    BY <2>2, RowsAttended
  <2>4. rows'[RowOf(k)].status = "executing"
    BY <2>1, <2>3, StatusSet
  <2>5. reflect'[k].at = "claimed" /\ reflect'[k].todo = reflect[k].todo
    BY <2>1, OwnPass
  <2> QED BY <2>2, <2>4, <2>5
<1>3. CASE LogOutcome(k)
  <2>1. Facing(k, "claimed", "resolve") /\ StepTo(k, "logged") /\ rows' = rows
    BY <1>3 DEF LogOutcome
  <2>2. /\ AtRow(k) /\ reflect[k].todo # <<>> /\ Head(reflect[k].todo).kind = "resolve"
        /\ reflect[k].at = "claimed"
    BY <2>1 DEF Facing, AtRow
  <2>3. reflect'[k].at = "logged" /\ reflect'[k].todo = reflect[k].todo
    BY <2>1, OwnPass
  <2> QED BY <2>1, <2>2, <2>3 DEF Attended
<1>4. CASE Finalize(k) \/ SurfaceEscalation(k)
  BY <1>4, OwnPass DEF Finalize, SurfaceEscalation
<1>5. CASE ReadJournal(k) \/ FinalizeLost(k) \/ AbortPass(k)
  BY <1>5, OwnPass
<1> QED BY <1>1, <1>2, <1>3, <1>4, <1>5 DEF Reflect

\* The rows of the passes that rest.
LEMMA OtherRows ==
  ASSUME TypeOK, Attended, NEW k \in Consoles, Reflect(k) \/ AbortPass(k),
         NEW j \in Consoles, j # k, AtRow(j)
  PROVE  rows'[RowOf(j)] = rows[RowOf(j)]
<1>1. RowOf(j) \in Valves /\ rows[RowOf(j)].status # "absent"
  BY RowsAttended DEF Attended
<1>2. CASE Record(k)
  <2> DEFINE d == Head(reflect[k].todo)
  <2>1. \/ rows' = rows
        \/ /\ rows' = [rows EXCEPT ![d.id] = [status |-> "pending", tag |-> d.tag]]
           /\ rows[d.id].status = "absent"
    BY <1>2 DEF Record
  <2> QED BY <1>1, <2>1 DEF TypeOK
<1>3. CASE Claim(k) \/ Finalize(k)
  <2>1. \E s : rows' = [rows EXCEPT ![RowOf(k)].status = s]
    BY <1>3 DEF Claim, Finalize, RowOf
  <2>2. AtRow(k)
    BY <1>3 DEF Claim, Finalize, Finalizing, Facing, AtRow
  <2> QED BY <1>1, <2>1, <2>2, RowsAttended, StatusSet DEF Attended
<1>4. CASE UNCHANGED rows
  BY <1>4
<1> QED BY <1>2, <1>3, <1>4
        DEF Reflect, ReadJournal, LogOutcome, FinalizeLost, SurfaceEscalation, AbortPass

\* Every step leaves each pass at a row of its own.
LEMMA AttendedStep == ASSUME TypeOK, Attended, [Next]_vars PROVE Attended'
<1> DEFINE Tidy(k) ==
      /\ reflect'[k].todo # <<>> /\ Head(reflect'[k].todo).kind = "resolve"
      /\ reflect'[k].at = "recorded" => rows'[RowOf(k)'].status = "pending"
      /\ reflect'[k].at # "recorded" => rows'[RowOf(k)'].status \in {"executing", "failed"}
<1>1. ASSUME NEW k \in Consoles, reflect'[k] = reflect[k]
      PROVE  RowOf(k)' = RowOf(k) /\ (AtRow(k)' <=> AtRow(k))
  BY <1>1 DEF RowOf, AtRow
<1>2. CASE UNCHANGED <<reflect, rows>>
  BY <1>1, <1>2 DEF Attended
<1>4. ASSUME NEW i \in Valves, Recover(i) PROVE Attended'
  <2>1. /\ UNCHANGED reflect /\ rows[i].status = "executing"
        /\ rows' = [rows EXCEPT ![i].status = "failed"]
    BY <1>4 DEF Recover
  <2>2. rows'[i].status = "failed" /\ \A j \in Valves : j # i => rows'[j] = rows[j]
    BY <2>1, StatusSet
  <2>3. ASSUME NEW k \in Consoles, AtRow(k) PROVE Tidy(k)
    <3>1. RowOf(k) \in Valves /\ RowOf(k)' = RowOf(k)
      BY <1>1, <2>1, <2>3, RowsAttended
    <3> QED BY <2>1, <2>2, <2>3, <3>1 DEF Attended
  <2>4. \A k \in Consoles : RowOf(k)' = RowOf(k) /\ (AtRow(k)' <=> AtRow(k))
    BY <1>1, <2>1
  <2> QED BY <2>3, <2>4 DEF Attended
<1>3. ASSUME NEW k \in Consoles, OthersKept(k), Reflect(k) \/ AbortPass(k)
      PROVE  Attended'
  <2>1. ASSUME NEW j \in Consoles, j # k
        PROVE  RowOf(j)' = RowOf(j) /\ (AtRow(j)' <=> AtRow(j)) /\ reflect'[j] = reflect[j]
    BY <1>1, <1>3, <2>1 DEF OthersKept
  <2>2. ASSUME NEW j \in Consoles, j # k, AtRow(j)' PROVE Tidy(j)
    <3>1. AtRow(j) /\ rows'[RowOf(j)] = rows[RowOf(j)]
      BY <1>3, <2>1, <2>2, OtherRows
    <3> QED BY <2>1, <2>2, <3>1 DEF Attended
  <2>3. AtRow(k)' => RowOf(k)' = RowOf(k) /\ Tidy(k) /\ (AtRow(k) \/ rows[RowOf(k)].status = "absent")
    BY <1>3, OwnRow DEF RowOf
  <2>4. ASSUME NEW i \in Consoles, NEW j \in Consoles, i # j, AtRow(i)', AtRow(j)'
        PROVE  RowOf(i)' # RowOf(j)'
    <3>1. /\ RowOf(i)' = RowOf(i) /\ (AtRow(i) \/ rows[RowOf(i)].status = "absent")
          /\ RowOf(j)' = RowOf(j) /\ (AtRow(j) \/ rows[RowOf(j)].status = "absent")
          /\ AtRow(i) \/ AtRow(j)
      BY <2>1, <2>3, <2>4
    <3> QED BY <2>4, <3>1 DEF Attended
  <2>5. \A j \in Consoles : AtRow(j)' => Tidy(j)
    BY <2>2, <2>3
  <2> QED BY <2>4, <2>5 DEF Attended
<1> QED BY <1>2, <1>3, <1>4, AttendedSteps

\* What a step does to the reflected ids: nothing, but for the log of an outcome.
LEMMA ReflectionSteps ==
  ASSUME IngestInv, [Next]_vars
  PROVE  \/ Reflections' = Reflections
         \/ \E k \in Consoles : LogOutcome(k)
<1>1. TypeOK /\ log \in Seq(Events)
  BY DEF IngestInv, TypeOK
<1>2. ASSUME log' = log PROVE Reflections' = Reflections
  BY <1>2 DEF Reflections, Logged, Reflected, Event
<1>3. ASSUME NEW a \in Events, log' = Append(log, a), a.kind # "reflected"
      PROVE  Reflections' = Reflections
  <2>1. \A f : f # a => (Logged(f)' <=> Logged(f))
    <3>1. /\ DOMAIN log' = 1 .. Len(log) + 1 /\ DOMAIN log = 1 .. Len(log) /\ Len(log) \in Nat
          /\ log'[Len(log) + 1] = a /\ \A n \in 1 .. Len(log) : log'[n] = log[n]
      BY <1>1, <1>3
    <3>2. DOMAIN log' = DOMAIN log \cup {Len(log) + 1}
      BY <3>1
    <3> QED BY <3>1, <3>2 DEF Logged
  <2>2. ASSUME NEW i \in Valves PROVE Logged(Reflected(i))' <=> Logged(Reflected(i))
    <3>1. PICK f : f = Reflected(i)
      OBVIOUS
    <3>2. f # a
      BY <1>3, <3>1 DEF Reflected, Event
    <3> QED BY <2>1, <3>1, <3>2 DEF Logged, Reflected, Event
  <2> QED BY <2>2 DEF Reflections
<1>4. ASSUME NEW k \in Consoles, SurfaceEscalation(k) PROVE Reflections' = Reflections
  <2> DEFINE e == Escalated(Head(reflect[k].todo).id, Head(reflect[k].todo).tag)
  <2>1. e \in Events /\ log' = Append1(e)
    BY <1>1, <1>4, FacedType, EventTypes DEF SurfaceEscalation, Escalates
  <2>2. e.kind # "reflected"
    BY DEF Escalated, Event
  <2> HIDE DEF e
  <2>3. log' = log \/ log' = Append(log, e)
    BY <2>1 DEF Append1
  <2> QED BY <1>2, <1>3, <2>1, <2>2, <2>3
<1>5. ASSUME NEW e \in ingest.owed, Land(e) \/ Disambiguate(e) PROVE Reflections' = Reflections
  <2>1. PICK a \in Events : Landing(e, a)
    BY <1>5, Landings DEF IngestInv
  <2>2. a.kind # "reflected"
    BY <2>1, LandedKind DEF IngestInv, OwedKinds, IsMarker
  <2>3. log' = log \/ log' = Append(log, a)
    BY <2>1 DEF Landing
  <2> QED BY <1>2, <1>3, <2>2, <2>3
<1> QED BY <1>2, <1>4, <1>5
        DEF Next, Ingest, ListPrior, ReadSurface, EndIngest, Collide, AbortIngest, Reflect,
            ReadJournal, Record, Claim, Finalize, FinalizeLost, AbortPass, Recover,
            ChangeSurface, Decide, vars

\* What a step does to the rows of the queue.
LEMMA QueueRows ==
  ASSUME TypeOK, NEW i \in Valves, NEW r \in Rows, rows' = [rows EXCEPT ![i] = r]
  PROVE  RowStatus' = [RowStatus EXCEPT ![i] = r.status]
<1>1. rows \in [Valves -> Rows]
  BY DEF TypeOK
<1> QED BY <1>1 DEF RowStatus

\* What a status that is set does to the rows of the queue.
LEMMA QueueStatus ==
  ASSUME TypeOK, NEW i \in Valves, NEW s \in {"executing", "completed", "failed"},
         rows' = [rows EXCEPT ![i].status = s]
  PROVE  RowStatus' = [RowStatus EXCEPT ![i] = s]
<1> DEFINE r == [rows[i] EXCEPT !.status = s]
<1>1. r \in Rows /\ r.status = s
  BY DEF TypeOK, Rows
<1>2. rows' = [rows EXCEPT ![i] = r]
  OBVIOUS
<1> HIDE DEF r
<1> QED BY <1>1, <1>2, QueueRows

\* Every step is a step of the queue, or none.
LEMMA QueueStep ==
  ASSUME IngestInv, Attended, LoggedOutcome, [Next]_vars
  PROVE  [Queue!Next]_(Queue!qvars)
<1>1. TypeOK /\ rows \in [Valves -> Rows] /\ log \in Seq(Events)
  BY DEF IngestInv, TypeOK
<1>2. Reflections' = Reflections => TimesReflected' = TimesReflected
  BY DEF TimesReflected
<1>3. ASSUME UNCHANGED rows, Reflections' = Reflections PROVE [Queue!Next]_(Queue!qvars)
  BY <1>2, <1>3 DEF Queue!qvars, RowStatus
<1>4. ASSUME NEW i \in Valves, Recover(i), Reflections' = Reflections PROVE Queue!Next
  <2>1. rows[i].status = "executing" /\ RowStatus' = [RowStatus EXCEPT ![i] = "failed"]
    BY <1>1, <1>4, QueueStatus DEF Recover
  <2>2. RowStatus' = [c \in Valves |-> IF c \in {i} THEN "failed" ELSE RowStatus[c]]
    BY <2>1 DEF RowStatus
  <2>3. Queue!GiveUp({i})
    BY <1>2, <1>4, <2>1, <2>2 DEF Queue!GiveUp, RowStatus
  <2> QED BY <2>3 DEF Queue!Next
<1>5. ASSUME NEW k \in Consoles, Record(k), Reflections' = Reflections
      PROVE  [Queue!Next]_(Queue!qvars)
  <2> DEFINE d == Head(reflect[k].todo)
             r == [status |-> "pending", tag |-> d.tag]
  <2>1. CASE rows' = rows
    BY <1>3, <1>5, <2>1
  <2>2. CASE rows' = [rows EXCEPT ![d.id] = r] /\ rows[d.id].status = "absent"
    <3>1. d \in Resolutions
      BY <1>1, <1>5, FacedType DEF Record
    <3>2. d.id \in Valves /\ r \in Rows /\ r.status = "pending"
      BY <3>1 DEF Resolutions, Rows
    <3> HIDE DEF r
    <3>3. RowStatus' = [RowStatus EXCEPT ![d.id] = "pending"]
      BY <1>1, <2>2, <3>2, QueueRows
    <3>4. Queue!Request(d.id)
      BY <1>2, <1>5, <2>2, <3>2, <3>3 DEF Queue!Request, RowStatus
    <3> QED BY <3>2, <3>4 DEF Queue!Next
  <2> QED BY <1>5, <2>1, <2>2 DEF Record
<1>6. ASSUME NEW k \in Consoles, Claim(k), Reflections' = Reflections PROVE Queue!Next
  <2>1. AtRow(k) /\ rows[RowOf(k)].status = "pending"
    BY <1>6 DEF Claim, Facing, AtRow, Attended
  <2>2. RowOf(k) \in Valves
    BY <1>1, <2>1, RowsAttended
  <2>3. RowStatus' = [RowStatus EXCEPT ![RowOf(k)] = "executing"]
    BY <1>1, <1>6, <2>2, QueueStatus DEF Claim, RowOf
  <2>4. Queue!Claim(RowOf(k))
    BY <1>2, <1>6, <2>1, <2>2, <2>3 DEF Queue!Claim, RowStatus
  <2> QED BY <2>2, <2>4 DEF Queue!Next
<1>7. ASSUME NEW k \in Consoles, Finalize(k), Reflections' = Reflections PROVE Queue!Next
  <2>1. AtRow(k) /\ rows[RowOf(k)].status = "executing" /\ reflect[k].todo # <<>>
    BY <1>7 DEF Finalize, Finalizing, Facing, AtRow, RowOf
  <2>2. RowOf(k) \in Valves
    BY <1>1, <2>1, RowsAttended
  <2>3. RowStatus' = [RowStatus EXCEPT ![RowOf(k)] = "completed"]
    BY <1>1, <1>7, <2>2, QueueStatus DEF Finalize, RowOf
  <2>4. RowOf(k) \in Reflections
    BY <1>7, <2>1, <2>2 DEF Finalize, Finalizing, Facing, LoggedOutcome, Reflections, RowOf
  <2>5. Queue!Finish(RowOf(k), "completed")
    BY <1>2, <1>7, <2>1, <2>2, <2>3, <2>4 DEF Queue!Finish, Queue!Terminal, RowStatus
  <2> QED BY <2>2, <2>5 DEF Queue!Next, Queue!Terminal
<1>8. ASSUME NEW k \in Consoles, LogOutcome(k) PROVE [Queue!Next]_(Queue!qvars)
  <2> DEFINE i == RowOf(k)
  <2>1. AtRow(k) /\ rows[i].status \in {"executing", "failed"}
    BY <1>8 DEF LogOutcome, Facing, AtRow, Attended
  <2>2. i \in Valves
    BY <1>1, <2>1, RowsAttended
  <2>3. log' = Append1(Reflected(i)) /\ UNCHANGED rows
    BY <1>8 DEF LogOutcome, RowOf
  <2> HIDE DEF i
  <2>4. CASE i \in Reflections
    <3>1. log' = log
      BY <2>3, <2>4 DEF Reflections, Append1
    <3>2. Reflections' = Reflections
      BY <3>1 DEF Reflections, Logged, Reflected, Event
    <3> QED BY <1>3, <2>3, <3>2
  <2>5. CASE i \notin Reflections
    <3>1. log' = Append(log, Reflected(i))
      BY <2>2, <2>3, <2>5 DEF Reflections, Append1
    <3>2. ASSUME NEW j \in Valves PROVE Logged(Reflected(j))' <=> Logged(Reflected(j)) \/ j = i
      <4>1. PICK f : f = Reflected(j)
        OBVIOUS
      <4>2. PICK e : e = Reflected(i)
        OBVIOUS
      <4>3. (\E n \in DOMAIN log' : log'[n] = f) <=> (\E n \in DOMAIN log : log[n] = f) \/ f = e
        <5>1. /\ DOMAIN log' = DOMAIN log \cup {Len(log) + 1}
              /\ log'[Len(log) + 1] = e /\ \A n \in DOMAIN log : log'[n] = log[n]
          BY <1>1, <3>1, <4>2
        <5> QED BY <5>1
      <4>4. f = e <=> j = i
        BY <4>1, <4>2 DEF Reflected, Event
      <4> QED BY <4>1, <4>3, <4>4 DEF Logged, Reflected, Event
    <3>3. Reflections' = Reflections \cup {i}
      BY <2>2, <3>2 DEF Reflections
    <3>4. TimesReflected' = [TimesReflected EXCEPT ![i] = 1] /\ TimesReflected[i] = 0
      BY <2>2, <2>5, <3>3 DEF TimesReflected
    <3>5. Queue!Ask(i)
      BY <2>1, <2>2, <2>3, <3>3, <3>4 DEF Queue!Ask, RowStatus, i
    <3> QED BY <2>2, <3>5 DEF Queue!Next
  <2> QED BY <2>4, <2>5
<1> QED BY <1>3, <1>4, <1>5, <1>6, <1>7, <1>8, ReflectionSteps
        DEF Next, Ingest, ListPrior, ReadSurface, EndIngest, Land, Collide, Disambiguate,
            AbortIngest, Reflect, ReadJournal, FinalizeLost, SurfaceEscalation, AbortPass,
            ChangeSurface, Decide, vars

\* ImplementsCommandQueue: however many consoles reflect one journal, and whichever
\* rows are recovered under them, the claim without a look is of a row nobody else
\* has claimed.
THEOREM ReflectionsAreQueued == Spec => ImplementsCommandQueue
<1>1. Init => Queue!Init
  BY DEF Init, Queue!Init, RowStatus, TimesReflected, Reflections, Logged, NoRow
<1>2. Init => Attended
  BY DEF Init, Attended, AtRow, NoPass
<1>3. IngestInv /\ Attended /\ [Next]_vars => Attended'
  BY AttendedStep DEF IngestInv
<1>4. IngestInv /\ Attended /\ LoggedOutcome /\ [Next]_vars => [Queue!Next]_(Queue!qvars)
  BY QueueStep
<1> QED BY <1>1, <1>2, <1>3, <1>4, IngestCorrect, OutcomesLogged, PTL
        DEF Spec, Queue!Spec, ImplementsCommandQueue
===============================================================================
