------------------------------ MODULE ChainProofs ------------------------------
(***************************************************************************)
(* Proofs about what travels along a chain of servers, of any length and   *)
(* with any number of faults: WireFormat, the dates, facts and bodies, and *)
(* ServerMetadata, the descriptions of the servers.  The theorems about    *)
(* one use nothing of the other.                                           *)
(***************************************************************************)
EXTENDS WireFormat, ServerMetadata, TLAPS

-------------------------------------------------------------------------------
(* WireFormat: WireInv is inductive.  What is stored was rounded once, so that *)
(* rounding it again at the next server changes nothing.                      *)

\* Division with remainder
LEMMA Remainder ==
  ASSUME NEW k \in Nat \ {0}, NEW t \in Int
  PROVE  /\ t \div k \in Int /\ t % k \in Int
         /\ 0 <= t % k /\ t % k < k
         /\ t = k * (t \div k) + (t % k)
OBVIOUS

\* To whole milliseconds it is rounded down, and a second time changes nothing.
LEMMA Rounding ==
  ASSUME NEW t \in Int
  PROVE  Millisecond(t) \in Int /\ Millisecond(t) <= t /\ Whole(Millisecond(t))
<1> DEFINE k == MsTicks
           q == t \div k
           r == (k * q) % k
           p == (k * q) \div k
<1>1. k \in Nat \ {0}
  BY ConstantsAssumption
<1>2. q \in Int /\ Millisecond(t) = k * q /\ k * q <= t /\ k * q \in Int
  BY <1>1, Remainder DEF Millisecond
<1>3. p \in Int /\ r \in Int /\ 0 <= r /\ r < k /\ k * q = k * p + r
  BY <1>1, <1>2, Remainder
<1>4. r = 0
  <2> HIDE DEF k, q, r, p
  <2>1. k * (q - p) = r
    BY <1>1, <1>2, <1>3
  <2>2. CASE q - p >= 1
    BY <1>1, <1>2, <1>3, <2>1, <2>2, k * (q - p) >= k
  <2>3. CASE q - p <= -1
    BY <1>1, <1>2, <1>3, <2>1, <2>3, k * (q - p) <= -k
  <2>4. CASE q - p = 0
    BY <1>1, <1>2, <1>3, <2>1, <2>4
  <2> QED BY <1>2, <1>3, <2>2, <2>3, <2>4
<1>5. Millisecond(k * q) = k * q
  BY <1>2, <1>4 DEF Millisecond
<1> QED BY <1>2, <1>5 DEF Whole

\* Of clean facts nothing changes, and other facts become clean.
LEMMA Cleaning ==
  ASSUME NEW facts, Fitting(facts), NEW clean \in Sanitized(facts)
  PROVE  CleanFacts(clean) /\ (CleanFacts(facts) => clean = facts)
<1>1. /\ clean \in [{Clean(k) : k \in DOMAIN facts} -> {facts[k] : k \in DOMAIN facts}]
      /\ \A c \in DOMAIN clean : \E k \in DOMAIN facts : Clean(k) = c /\ clean[c] = facts[k]
  BY DEF Sanitized
<1>2. \A k : Clean(k) \notin {".", "$"}
  BY DEF Clean
<1>3. CleanFacts(clean)
  BY <1>1, <1>2 DEF CleanFacts, Fitting
<1>4. ASSUME CleanFacts(facts) PROVE clean = facts
  <2>1. \A k \in DOMAIN facts : Clean(k) = k
    BY <1>4 DEF CleanFacts, Clean
  <2>2. DOMAIN clean = DOMAIN facts
    BY <1>1, <2>1
  <2>3. \A k \in DOMAIN facts : clean[k] = facts[k]
    BY <1>1, <2>1, <2>2
  <2>4. facts = [k \in DOMAIN facts |-> facts[k]] /\ clean = [k \in DOMAIN clean |-> clean[k]]
    BY <1>1, <1>4 DEF CleanFacts, Fitting
  <2>5. [k \in DOMAIN clean |-> clean[k]] = [k \in DOMAIN facts |-> facts[k]]
    BY <2>2, <2>3
  <2> QED BY <2>4, <2>5
<1> QED BY <1>3, <1>4

\* What a server stores of a message is in order, in whole milliseconds of what it was
\* told.
LEMMA StoredWhole ==
  ASSUME NEW m, MessageOK(m), NEW d \in Dates(m), NEW facts \in Sanitized(m.facts),
         Parses(m.date) \/ m.date.form = "blank"
  PROVE  /\ DocumentOK(Document(d, facts, m.meant))
         /\ d.zone \in {"none", "utc", "east"} /\ Instant(d) \in Int
         /\ Stamp(Document(d, facts, m.meant)) = Millisecond(Instant(d))
         /\ Parses(m.date) => Instant(d) = Instant(m.date)
<1> DEFINE doc == Document(d, facts, m.meant)
<1>1. d.local \in Int /\ d.zone \in {"none", "utc", "east"}
  BY ConstantsAssumption DEF Dates, Converted, MessageOK
<1>2. Instant(d) \in Int
  BY <1>1, ConstantsAssumption DEF Instant, Offset
<1>3. /\ doc.stamp = [local |-> Millisecond(Instant(d)), zone |-> "utc"]
      /\ doc.facts = facts /\ doc.meant = m.meant
  BY DEF Document, InMongo
<1>4. Parses(m.date) => Instant(d) = Instant(m.date)
  BY DEF Parses, Dates, Instant, Converted, Offset
<1>5. DocumentOK(doc)
  BY <1>2, <1>3, <1>4, Rounding, Cleaning DEF DocumentOK, Stamp, MessageOK
<1> QED BY <1>1, <1>2, <1>3, <1>4, <1>5 DEF Stamp

\* ... and what was forwarded is stored as it is.
LEMMA StoredSame ==
  ASSUME NEW m, MessageOK(m), Forwarded(m), NEW d \in Dates(m), NEW facts \in Sanitized(m.facts)
  PROVE  LET doc == Document(d, facts, m.meant)
         IN  Written(doc.stamp) = m.date /\ doc.facts = m.facts /\ Stamp(doc) = Instant(d)
<1>1. m.date = [form |-> "space", local |-> m.date.local, zone |-> "utc"] /\ m.date.local \in Int
  BY DEF MessageOK
<1>2. d = [local |-> m.date.local, zone |-> "utc"]
  BY <1>1 DEF Dates, Converted
<1>3. Instant(d) = m.date.local /\ Millisecond(Instant(d)) = m.date.local
  BY <1>1, <1>2 DEF Instant, Offset, MessageOK, Whole
<1>4. facts = m.facts
  BY Cleaning DEF MessageOK
<1> QED BY <1>1, <1>3, <1>4 DEF Document, InMongo, Written, Stamp

\* There is nothing at first.
LEMMA InitWire == Init => WireInv
BY DEF Init, WireInv

\* What a client posts
LEMMA PostKeeps ==
  ASSUME WireInv, NEW date \in DateTexts, NEW keys \in FactKeys, NEW gzip \in BOOLEAN,
         NEW header \in BOOLEAN, NEW home \in Homes, Post(date, home, keys, gzip, header)
  PROVE  WireInv'
<1>1. /\ date.form \in {"iso", "space", "blank", "word"} /\ date.local \in Int
      /\ date.zone \in {"none", "utc", "east"}
  BY ConstantsAssumption DEF DateTexts
<1>2. Meant(date, home).told => Meant(date, home).at = Instant(date)
  BY <1>1, ConstantsAssumption DEF Meant, Instant, Offset
<1>3. /\ message'.to = 1 /\ message'.date = date /\ message'.facts = [k \in keys |-> k]
      /\ message'.meant = IF Parses(date) THEN Meant(date, home) ELSE None
  BY DEF Post, Message
<1>4. date \in [form : {"iso", "space", "blank", "word"}, local : Int, zone : {"none", "utc", "east"}]
  BY ConstantsAssumption DEF DateTexts
<1>5. Fitting(message'.facts)
  BY <1>3 DEF Fitting
<1>6. MessageOK(message')
  BY <1>2, <1>3, <1>4, <1>5, ConstantsAssumption DEF MessageOK, Forwarded, Servers
<1> QED BY <1>6 DEF WireInv, Post

\* What a server forwards is whole and clean since its documents are.
LEMMA ForwardKeeps ==
  ASSUME WireInv, NEW n \in Servers, NEW doc \in db[n], NEW gzip \in BOOLEAN, Forward(n, doc, gzip)
  PROVE  WireInv'
<1>1. DocumentOK(doc)
  BY DEF WireInv
<1>2. n + 1 \in Servers
  BY ConstantsAssumption DEF Forward, Servers
<1>3. /\ message'.to = n + 1 /\ message'.facts = doc.facts /\ message'.meant = doc.meant
      /\ message'.date = [form |-> "space", local |-> Stamp(doc), zone |-> "utc"]
      /\ message'.gzip = message'.header
  BY <1>1 DEF Forward, Message, Written, DocumentOK, Stamp
<1>4. Stamp(doc) \in Int /\ Instant(message'.date) = Stamp(doc)
  BY <1>1, <1>3 DEF DocumentOK, Stamp, Instant, Offset
<1>5. MessageOK(message')
  BY <1>1, <1>2, <1>3, <1>4 DEF MessageOK, DocumentOK, Forwarded, CleanFacts, Whole, Parses
<1> QED BY <1>5 DEF WireInv, Forward

\* A broken body is still the same message.
LEMMA BreakKeeps == ASSUME WireInv, Break PROVE WireInv'
<1>1. /\ message'.to = message.to /\ message'.date = message.date /\ message'.facts = message.facts
      /\ message'.meant = message.meant /\ message'.gzip = message.gzip /\ message'.header = message.header
  BY DEF Break
<1> QED BY <1>1 DEF Break, WireInv, MessageOK, Forwarded

\* A usage record that is not there yet is added.
LEMMA AddedKeeps ==
  ASSUME WireInv, resource = "usage", UNCHANGED resource, message' # None => message' = message,
         NEW n \in Servers, NEW doc, DocumentOK(doc), db' = [db EXCEPT ![n] = @ \cup {doc}],
         \A old \in db[n] : Stamp(old) # Stamp(doc)
  PROVE  WireInv'
<1>1. \A m \in Servers : \A e \in db'[m] : e \in db[m] \/ (m = n /\ e = doc)
  BY DEF WireInv
<1>2. \A m \in Servers : \A e \in db'[m] : DocumentOK(e)
  BY <1>1 DEF WireInv
<1>3. \A m \in Servers : \A e, f \in db'[m] : Stamp(e) = Stamp(f) => e = f
  BY <1>1 DEF WireInv
<1> QED BY <1>2, <1>3 DEF WireInv

\* A check-in records its usage, as if its clock were at UTC.
LEMMA RecordKeeps ==
  ASSUME WireInv, NEW n \in Servers, NEW time \in 0..Ticks, NEW home \in Homes,
         NEW keys \in FactKeys, Record(n, time, home, keys)
  PROVE  WireInv'
<1> DEFINE naive == [local |-> time, zone |-> "none"]
           meant == Meant(naive, home)
<1>1. resource = "usage" /\ UNCHANGED <<resource, message>>
  BY DEF Record
<1>2. CASE UNCHANGED db
  BY <1>1, <1>2 DEF WireInv
<1>3. ASSUME NEW facts \in Sanitized([k \in keys |-> k]),
             db' = [db EXCEPT ![n] = @ \cup {Document(naive, facts, meant)}],
             \A old \in db[n] : ~SameDate(old, naive)
      PROVE  WireInv'
  <2> DEFINE doc == Document(naive, facts, meant)
  <2>1. Instant(naive) = time /\ time \in Int
    BY ConstantsAssumption DEF Instant, Offset
  <2>2. meant.told => meant.at = time
    <3>1. meant.told <=> home = "utc"
      BY DEF Meant
    <3>2. meant.at = time - Offset(home)
      BY DEF Meant
    <3> QED BY <2>1, <3>1, <3>2 DEF Offset
  <2>3. doc.stamp = [local |-> Millisecond(time), zone |-> "utc"] /\ doc.facts = facts /\ doc.meant = meant
    BY <2>1 DEF Document, InMongo
  <2>4. CleanFacts(facts)
    <3>1. Fitting([k \in keys |-> k])
      BY DEF Fitting
    <3> QED BY <3>1, Cleaning
  <2>5. DocumentOK(doc)
    <3>1. Millisecond(time) \in Int /\ Whole(Millisecond(time))
      BY <2>1, Rounding
    <3> HIDE DEF doc, meant, naive
    <3> QED BY <2>2, <2>3, <2>4, <3>1 DEF DocumentOK, Stamp
  <2>6. \A old \in db[n] : Stamp(old) # Stamp(doc)
    <3> SUFFICES ASSUME NEW old \in db[n], Stamp(old) = Stamp(doc) PROVE SameDate(old, naive)
      BY <1>3
    <3>1. old.stamp = [local |-> Stamp(old), zone |-> "utc"]
      BY DEF WireInv, DocumentOK, Stamp
    <3>2. InMongo(naive) = [local |-> Stamp(doc), zone |-> "utc"]
      BY <2>1, <2>3 DEF InMongo, Stamp
    <3> QED BY <3>1, <3>2 DEF SameDate
  <2> HIDE DEF doc
  <2>7. db' = [db EXCEPT ![n] = @ \cup {doc}]
    BY <1>3 DEF doc
  <2> QED BY <1>1, <2>5, <2>6, <2>7, AddedKeeps
<1> QED BY <1>2, <1>3 DEF Record

\* A usage record is there already, or it is added.
LEMMA ImportStores ==
  ASSUME WireInv, Import
  PROVE  /\ resource = "usage" /\ status' = 202 /\ MessageOK(message)
         /\ \E d \in Dates(message) :
              /\ Parses(message.date)
              /\ \/ UNCHANGED db /\ \E old \in db[message.to] : Stamp(old) = Millisecond(Instant(d))
                 \/ \E facts \in Sanitized(message.facts) :
                      /\ db' = [db EXCEPT ![message.to] = @ \cup {Document(d, facts, message.meant)}]
                      /\ \A old \in db[message.to] : Stamp(old) # Millisecond(Instant(d))
<1> DEFINE d == Converted(message.date)
<1>1. resource = "usage" /\ status' = 202 /\ MessageOK(message) /\ Parses(message.date) /\ d \in Dates(message)
  BY DEF Import, Accepts, Answer, WireInv, Dates
<1>2. \A old \in db[message.to] : SameDate(old, d) <=> Stamp(old) = Millisecond(Instant(d))
  BY <1>1 DEF WireInv, MessageOK, DocumentOK, SameDate, InMongo, Stamp
<1>3. CASE \E old \in db[message.to] : SameDate(old, d)
  BY <1>1, <1>2, <1>3 DEF Import
<1>4. CASE ~ \E old \in db[message.to] : SameDate(old, d)
  BY <1>1, <1>2, <1>4 DEF Import
<1> QED BY <1>3, <1>4

\* An object replaces what is older, or there is one as new.
LEMMA CreateStores ==
  ASSUME WireInv, Create
  PROVE  /\ resource = "object" /\ status' = 204 /\ MessageOK(message)
         /\ Parses(message.date) \/ message.date.form = "blank"
         /\ \E d \in Dates(message), facts \in Sanitized(message.facts) :
              \/ UNCHANGED db /\ \E old \in db[message.to] : ~(Instant(d) > Stamp(old))
              \/ /\ db' = [db EXCEPT ![message.to] = {Document(d, facts, message.meant)}]
                 /\ \A old \in db[message.to] : Instant(d) > Stamp(old)
<1>1. resource = "object" /\ status' = 204 /\ MessageOK(message) /\ (Parses(message.date) \/ message.date.form = "blank")
  BY DEF Create, Accepts, Answer, WireInv
<1>2. PICK d \in Dates(message), facts \in Sanitized(message.facts) :
        IF \A doc \in db[message.to] : Newer(d, doc)
          THEN db' = [db EXCEPT ![message.to] = {Document(d, facts, message.meant)}] ELSE UNCHANGED db
  BY DEF Create
<1>3. CASE \A doc \in db[message.to] : Newer(d, doc)
  BY <1>1, <1>2, <1>3 DEF Newer
<1>4. CASE ~ \A doc \in db[message.to] : Newer(d, doc)
  BY <1>1, <1>2, <1>4 DEF Newer
<1> QED BY <1>3, <1>4

\* Whatever a server makes of a message
LEMMA ReceiveKeeps == ASSUME WireInv, Receive PROVE WireInv'
<1>1. UNCHANGED resource /\ (message' # None => message' = message)
  BY DEF Receive, Refuse, Import, Create, Answer
<1>2. CASE Refuse
  BY <1>1, <1>2 DEF Refuse, WireInv
<1>3. CASE Import
  <2>1. PICK d \in Dates(message) :
          /\ resource = "usage" /\ MessageOK(message) /\ Parses(message.date)
          /\ \/ UNCHANGED db
             \/ \E facts \in Sanitized(message.facts) :
                  /\ db' = [db EXCEPT ![message.to] = @ \cup {Document(d, facts, message.meant)}]
                  /\ \A old \in db[message.to] : Stamp(old) # Millisecond(Instant(d))
    BY <1>3, ImportStores
  <2>2. CASE UNCHANGED db
    BY <1>1, <2>2 DEF WireInv
  <2>3. ASSUME NEW facts \in Sanitized(message.facts),
               db' = [db EXCEPT ![message.to] = @ \cup {Document(d, facts, message.meant)}],
               \A old \in db[message.to] : Stamp(old) # Millisecond(Instant(d))
        PROVE  WireInv'
    <3> DEFINE doc == Document(d, facts, message.meant)
    <3>1. DocumentOK(doc) /\ Stamp(doc) = Millisecond(Instant(d))
      BY <2>1, StoredWhole
    <3> HIDE DEF doc
    <3>2. db' = [db EXCEPT ![message.to] = @ \cup {doc}] /\ message.to \in Servers
      BY <2>1, <2>3 DEF doc, MessageOK
    <3>3. \A old \in db[message.to] : Stamp(old) # Stamp(doc)
      BY <2>3, <3>1
    <3> QED BY <1>1, <2>1, <3>1, <3>2, <3>3, AddedKeeps
  <2> QED BY <2>1, <2>2, <2>3
<1>4. CASE Create
  <2>1. PICK d \in Dates(message), facts \in Sanitized(message.facts) :
          /\ resource = "object" /\ MessageOK(message) /\ (Parses(message.date) \/ message.date.form = "blank")
          /\ UNCHANGED db \/ db' = [db EXCEPT ![message.to] = {Document(d, facts, message.meant)}]
    BY <1>4, CreateStores
  <2>2. CASE UNCHANGED db
    BY <1>1, <2>2 DEF WireInv
  <2>3. CASE db' = [db EXCEPT ![message.to] = {Document(d, facts, message.meant)}]
    <3> DEFINE doc == Document(d, facts, message.meant)
    <3>1. DocumentOK(doc)
      BY <2>1, StoredWhole
    <3> HIDE DEF doc
    <3>2. db' = [db EXCEPT ![message.to] = {doc}]
      BY <2>3 DEF doc
    <3>3. \A n \in Servers : db'[n] = IF n = message.to THEN {doc} ELSE db[n]
      BY <3>2 DEF WireInv
    <3>4. \A n \in Servers : \A e \in db'[n] : DocumentOK(e)
      BY <3>1, <3>3 DEF WireInv
    <3>5. \A n \in Servers : \A e, f \in db'[n] : e = f
      BY <2>1, <3>3 DEF WireInv
    <3> QED BY <1>1, <2>1, <3>2, <3>4, <3>5 DEF WireInv
  <2> QED BY <2>1, <2>2, <2>3
<1> QED BY <1>2, <1>3, <1>4 DEF Receive

\* WireInv is inductive.
LEMMA StepWire == WireInv /\ [Next]_vars => WireInv'
<1> SUFFICES ASSUME WireInv, [Next]_vars PROVE WireInv'
  OBVIOUS
<1>1. CASE UNCHANGED vars
  BY <1>1 DEF vars, WireInv
<1>2. CASE Break \/ Receive
  BY <1>2, BreakKeeps, ReceiveKeeps
<1>3. CASE ~(Break \/ Receive) /\ Next
  BY <1>3, PostKeeps, ForwardKeeps, RecordKeeps DEF Next, Receive
<1> QED BY <1>1, <1>2, <1>3 DEF Next, Receive

\* What is stored and what is forwarded is always in order.
THEOREM WireIsSound == Spec => []WireInv
BY InitWire, StepWire, PTL DEF Spec

\* However a date was written and however many servers it has passed, the instant its author
\* meant is stored, if the date tells it or the author is at UTC, under keys that MongoDB
\* takes, and a record once.
THEOREM FaithfulHolds == Spec => []Faithful
<1>1. WireInv => Faithful
  BY DEF WireInv, DocumentOK, CleanFacts, Faithful, Documents
<1> QED BY <1>1, WireIsSound, PTL

\* Whatever a server forwards the next one takes, unless the body is broken.
THEOREM ForwardedIsAcceptedHolds == Spec => ForwardedIsAccepted
<1>1. WireInv /\ [Next]_vars =>
        [Receive /\ Forwarded(message) /\ ~message.broken => status' \in {202, 204}]_vars
  <2> SUFFICES ASSUME WireInv, Receive, Forwarded(message), ~message.broken
               PROVE  status' \in {202, 204}
    OBVIOUS
  <2>1. ~Refuse
    BY DEF Refuse, WireInv, MessageOK, Readable, Parses
  <2> QED BY <2>1, ImportStores, CreateStores DEF Receive
<1> QED BY <1>1, WireIsSound, PTL DEF Spec, ForwardedIsAccepted

\* What is forwarded arrives as it is, and takes the place of older versions only.
THEOREM ForwardedIsSameHolds == Spec => ForwardedIsSame
<1> DEFINE Same ==
      Receive => \A n \in Servers \ {1} : db'[n] # db[n] =>
         \E doc \in db'[n] : /\ db'[n] \ db[n] = {doc}
                             /\ Written(doc.stamp) = message.date /\ doc.facts = message.facts
                             /\ \A old \in db[n] \ db'[n] : Stamp(doc) > Stamp(old)
<1>1. ASSUME WireInv PROVE Same
  <2> SUFFICES ASSUME Receive, NEW n \in Servers \ {1}, db'[n] # db[n]
               PROVE  \E doc \in db'[n] :
                        /\ db'[n] \ db[n] = {doc}
                        /\ Written(doc.stamp) = message.date /\ doc.facts = message.facts
                        /\ \A old \in db[n] \ db'[n] : Stamp(doc) > Stamp(old)
    OBVIOUS
  <2>1. Import \/ Create
    BY DEF Receive, Refuse
  <2>2. n \in Nat /\ n # 1 /\ n >= 1
    BY ConstantsAssumption DEF Servers
  <2>3. CASE Import
    <3>1. PICK d \in Dates(message), facts \in Sanitized(message.facts) :
            /\ MessageOK(message) /\ Parses(message.date)
            /\ db' = [db EXCEPT ![message.to] = @ \cup {Document(d, facts, message.meant)}]
            /\ \A old \in db[message.to] : Stamp(old) # Millisecond(Instant(d))
      BY <1>1, <2>3, ImportStores
    <3> DEFINE doc == Document(d, facts, message.meant)
    <3>2. n = message.to /\ Forwarded(message)
      BY <1>1, <2>2, <3>1 DEF WireInv, Forwarded
    <3>3. Stamp(doc) = Millisecond(Instant(d)) /\ Written(doc.stamp) = message.date /\ doc.facts = message.facts
      BY <3>1, <3>2, StoredWhole, StoredSame
    <3> HIDE DEF doc
    <3>4. db'[n] = db[n] \cup {doc}
      BY <1>1, <3>1, <3>2 DEF WireInv, doc
    <3>5. doc \notin db[n]
      BY <3>1, <3>2, <3>3
    <3> QED BY <3>3, <3>4, <3>5
  <2>4. CASE Create
    <3>1. PICK d \in Dates(message), facts \in Sanitized(message.facts) :
            /\ MessageOK(message)
            /\ db' = [db EXCEPT ![message.to] = {Document(d, facts, message.meant)}]
            /\ \A old \in db[message.to] : Instant(d) > Stamp(old)
      BY <1>1, <2>4, CreateStores
    <3> DEFINE doc == Document(d, facts, message.meant)
    <3>2. n = message.to /\ Forwarded(message)
      BY <1>1, <2>2, <3>1 DEF WireInv, Forwarded
    <3>3. Stamp(doc) = Instant(d) /\ Written(doc.stamp) = message.date /\ doc.facts = message.facts
      BY <3>1, <3>2, StoredSame
    <3> HIDE DEF doc
    <3>4. db'[n] = {doc}
      BY <1>1, <3>1, <3>2 DEF WireInv, doc
    <3>5. \A old \in db[n] : Stamp(doc) > Stamp(old) /\ Stamp(old) \in Int
      BY <1>1, <3>1, <3>2, <3>3 DEF WireInv, DocumentOK, Stamp
    <3>6. doc \notin db[n]
      BY <3>5
    <3> QED BY <3>3, <3>4, <3>5, <3>6
  <2> QED BY <2>1, <2>3, <2>4
<1>2. WireInv /\ [Next]_vars => [Same]_vars
  BY <1>1
<1> QED BY <1>2, WireIsSound, PTL DEF Spec, ForwardedIsSame

\* A sender that has its answer finds the document there, or a version at least as new.
THEOREM DeliveredIsThereHolds == Spec => DeliveredIsThere
<1> DEFINE There ==
      Receive /\ status' \in {202, 204} /\ Parses(message.date) =>
        \E doc \in db'[message.to] :
          IF resource = "usage" THEN Stamp(doc) = Millisecond(Instant(message.date))
                                ELSE Stamp(doc) >= Millisecond(Instant(message.date))
<1>1. ASSUME WireInv PROVE There
  <2> SUFFICES ASSUME Receive, status' \in {202, 204}, Parses(message.date)
               PROVE  \E doc \in db'[message.to] :
                        IF resource = "usage" THEN Stamp(doc) = Millisecond(Instant(message.date))
                                              ELSE Stamp(doc) >= Millisecond(Instant(message.date))
    OBVIOUS
  <2>1. Import \/ Create
    BY DEF Receive, Refuse, Answer
  <2>2. CASE Import
    <3>1. PICK d \in Dates(message) :
            /\ resource = "usage" /\ MessageOK(message) /\ Parses(message.date)
            /\ \/ UNCHANGED db /\ \E old \in db[message.to] : Stamp(old) = Millisecond(Instant(d))
               \/ \E facts \in Sanitized(message.facts) :
                    db' = [db EXCEPT ![message.to] = @ \cup {Document(d, facts, message.meant)}]
      BY <1>1, <2>2, ImportStores
    <3>2. CASE UNCHANGED db /\ \E old \in db[message.to] : Stamp(old) = Millisecond(Instant(d))
      <4>1. Millisecond(Instant(d)) = Millisecond(Instant(message.date))
        BY <3>1 DEF Parses, Dates, Converted, Instant, Offset
      <4> QED BY <3>1, <3>2, <4>1
    <3>3. ASSUME NEW facts \in Sanitized(message.facts),
                 db' = [db EXCEPT ![message.to] = @ \cup {Document(d, facts, message.meant)}]
          PROVE  \E doc \in db'[message.to] : Stamp(doc) = Millisecond(Instant(message.date))
      <4>1. Stamp(Document(d, facts, message.meant)) = Millisecond(Instant(message.date))
        BY <3>1, StoredWhole
      <4>2. Document(d, facts, message.meant) \in db'[message.to]
        BY <1>1, <3>1, <3>3 DEF WireInv, MessageOK
      <4> QED BY <4>1, <4>2
    <3> QED BY <3>1, <3>2, <3>3
  <2>3. CASE Create
    <3>1. PICK d \in Dates(message), facts \in Sanitized(message.facts) :
            /\ resource = "object" /\ MessageOK(message) /\ (Parses(message.date) \/ message.date.form = "blank")
            /\ \/ UNCHANGED db /\ \E old \in db[message.to] : ~(Instant(d) > Stamp(old))
               \/ db' = [db EXCEPT ![message.to] = {Document(d, facts, message.meant)}]
      BY <1>1, <2>3, CreateStores
    <3> DEFINE doc == Document(d, facts, message.meant)
    <3>2. /\ Instant(d) \in Int /\ Stamp(doc) = Millisecond(Instant(d))
          /\ Instant(d) = Instant(message.date)
      BY <3>1, StoredWhole
    <3>3. Millisecond(Instant(d)) \in Int /\ Millisecond(Instant(d)) <= Instant(d)
      BY <3>2, Rounding
    <3> HIDE DEF doc
    <3>4. CASE UNCHANGED db /\ \E old \in db[message.to] : ~(Instant(d) > Stamp(old))
      <4>1. PICK old \in db[message.to] : ~(Instant(d) > Stamp(old))
        BY <3>4
      <4>2. Stamp(old) \in Int
        BY <1>1, <3>1 DEF WireInv, MessageOK, DocumentOK, Stamp
      <4>3. Stamp(old) >= Millisecond(Instant(message.date))
        BY <3>2, <3>3, <4>1, <4>2
      <4> QED BY <3>1, <3>4, <4>3
    <3>5. CASE db' = [db EXCEPT ![message.to] = {doc}]
      <4>1. doc \in db'[message.to]
        BY <1>1, <3>1, <3>5 DEF WireInv, MessageOK
      <4> QED BY <3>1, <3>2, <3>3, <4>1
    <3> QED BY <3>1, <3>4, <3>5 DEF doc
  <2> QED BY <2>1, <2>2, <2>3
<1>2. WireInv /\ [Next]_vars => [There]_vars
  BY <1>1
<1> QED BY <1>2, WireIsSound, PTL DEF Spec, DeliveredIsThere

-------------------------------------------------------------------------------
(* ServerMetadata.  The stamp of a server's document is chosen while nobody *)
(* has the document (OriginKeeps), so that a last_timestamp once taken from *)
(* a document stays the stamp of that document.  It is taken from a batch  *)
(* of which the next server has imported everything (SentIsImported).      *)

USE ChainAssumption, BoundsAssumption

LEMMA InitChainInv == ChainInit => ChainInv
  BY DEF ChainInit, ChainInv, TypeOK, OriginKeeps, UploaderHas, SentIsImported,
         LastIsDelivered, Chain, Senders, Times

\* A sender is a server, and so is the next one.
LEMMA SendersAreServers ==
  ASSUME NEW n \in Senders
  PROVE  n \in Chain /\ n + 1 \in Chain /\ n # n + 1
  BY DEF Senders, Chain

\* A server that has no document of its own yet is known to nobody.
LEMMA GetThisServerStep ==
  ASSUME ChainInv, NEW n \in Chain, GetThisServer(n)
  PROVE  ChainInv'
  <1>0. TypeOK /\ OriginKeeps /\ UploaderHas /\ SentIsImported /\ LastIsDelivered
    BY DEF ChainInv
  <1>1. PICK t \in {now - 1, now} \ {0} : stamp' = [stamp EXCEPT ![n] = t]
    BY DEF GetThisServer
  <1>2. /\ n \notin docs[n] /\ docs' = [docs EXCEPT ![n] = docs[n] \cup {n}]
        /\ UNCHANGED <<now, last, pc, batch, todo, late, failures>>
    BY DEF GetThisServer, uploader
  <1>3. t \in Times
    BY <1>0, <1>1 DEF TypeOK, Times
  <1>4. TypeOK'
    BY <1>0, <1>1, <1>2, <1>3 DEF TypeOK
  <1>5. \A m \in Chain : docs[m] \subseteq docs'[m] /\ \A u \in docs'[m] : u = n \/ u \in docs[m]
    BY <1>0, <1>2 DEF TypeOK
  <1>6. n \in docs'[n]
    BY <1>0, <1>2 DEF TypeOK
  <1>7. OriginKeeps'
    <2>1. ASSUME NEW m \in Chain, NEW u \in docs'[m] PROVE u \in docs'[u]
      <3>1. CASE u = n
        BY <1>6, <3>1
      <3>2. CASE u # n
        <4>1. u \in docs[m] /\ u \in Chain
          BY <1>0, <1>5, <2>1, <3>2 DEF TypeOK
        <4> QED
          BY <1>0, <1>5, <4>1 DEF OriginKeeps
      <3> QED
        BY <3>1, <3>2
    <2> QED
      BY <2>1 DEF OriginKeeps
  <1>8. UploaderHas' /\ SentIsImported'
    BY <1>0, <1>2, <1>5, SendersAreServers DEF UploaderHas, SentIsImported
  <1>9. LastIsDelivered'
    <2>1. ASSUME NEW k \in Senders, last[k] > 0
          PROVE  \E u \in docs'[k + 1] : stamp'[u] = last[k]
      <3>1. PICK u \in docs[k + 1] : stamp[u] = last[k]
        BY <1>0, <2>1 DEF LastIsDelivered
      <3>2. u \in Chain /\ u \in docs[u] /\ u \in docs'[k + 1]
        BY <1>0, <1>5, <3>1, SendersAreServers DEF TypeOK, OriginKeeps
      <3>3. stamp'[u] = stamp[u]
        BY <1>0, <1>1, <1>2, <3>2 DEF TypeOK
      <3> QED
        BY <3>1, <3>2, <3>3
    <2> QED
      BY <1>2, <2>1 DEF LastIsDelivered
  <1> QED
    BY <1>4, <1>7, <1>8, <1>9 DEF ChainInv

\* A document that a server has gets to the next one.
LEMMA ImportKeeps ==
  ASSUME ChainInv, NEW n \in Senders, NEW u \in docs[n],
         docs' = [docs EXCEPT ![n + 1] = docs[n + 1] \cup {u}],
         UNCHANGED <<stamp, last>>
  PROVE  /\ docs' \in [Chain -> SUBSET Chain]
         /\ \A m \in Chain : docs[m] \subseteq docs'[m]
         /\ u \in docs'[n + 1]
         /\ OriginKeeps' /\ LastIsDelivered'
  <1>0. TypeOK /\ OriginKeeps /\ LastIsDelivered
    BY DEF ChainInv
  <1>1. n \in Chain /\ n + 1 \in Chain
    BY SendersAreServers
  <1>2. u \in Chain /\ u \in docs[u]
    BY <1>0, <1>1 DEF TypeOK, OriginKeeps
  <1>3. docs' \in [Chain -> SUBSET Chain] /\ u \in docs'[n + 1]
    BY <1>0, <1>1, <1>2 DEF TypeOK
  <1>4. \A m \in Chain : docs[m] \subseteq docs'[m] /\ \A v \in docs'[m] : v = u \/ v \in docs[m]
    BY <1>0, <1>1 DEF TypeOK
  <1>5. OriginKeeps'
    <2>1. ASSUME NEW m \in Chain, NEW v \in docs'[m] PROVE v \in docs'[v]
      <3>1. v \in Chain /\ v \in docs[v]
        BY <1>0, <1>2, <1>4, <2>1 DEF TypeOK, OriginKeeps
      <3> QED
        BY <1>4, <3>1
    <2> QED
      BY <2>1 DEF OriginKeeps
  <1>6. LastIsDelivered'
    BY <1>0, <1>4, SendersAreServers DEF LastIsDelivered
  <1> QED
    BY <1>3, <1>4, <1>5, <1>6

LEMMA ImportStep ==
  ASSUME ChainInv, NEW n \in Senders, ImportNext(n)
  PROVE  ChainInv'
  <1>0. TypeOK /\ UploaderHas /\ SentIsImported
    BY DEF ChainInv
  <1>1. PICK u \in todo[n] :
          /\ docs' = [docs EXCEPT ![n + 1] = docs[n + 1] \cup {u}]
          /\ todo' = [todo EXCEPT ![n] = todo[n] \ {u}]
    BY DEF ImportNext
  <1>2. UNCHANGED <<now, stamp, last, pc, batch, late, failures>>
    BY DEF ImportNext
  <1>3. u \in docs[n]
    BY <1>0 DEF UploaderHas
  <1>4. /\ docs' \in [Chain -> SUBSET Chain]
        /\ \A m \in Chain : docs[m] \subseteq docs'[m]
        /\ u \in docs'[n + 1]
        /\ OriginKeeps' /\ LastIsDelivered'
    BY <1>1, <1>2, <1>3, ImportKeeps
  <1>5. TypeOK'
    BY <1>0, <1>1, <1>2, <1>4 DEF TypeOK
  <1>6. UploaderHas'
    BY <1>0, <1>1, <1>2, <1>4, SendersAreServers DEF UploaderHas, TypeOK
  <1>7. SentIsImported'
    <2>1. ASSUME NEW k \in Senders, pc[k] = "wait"
          PROVE  batch[k] \ todo'[k] \subseteq docs'[k + 1]
      <3>1. batch[k] \ todo[k] \subseteq docs'[k + 1]
        BY <1>0, <1>4, <2>1, SendersAreServers DEF SentIsImported
      <3>2. CASE k = n
        BY <1>0, <1>1, <1>4, <3>1, <3>2 DEF TypeOK
      <3>3. CASE k # n
        BY <1>0, <1>1, <3>1, <3>3 DEF TypeOK
      <3> QED
        BY <3>2, <3>3
    <2> QED
      BY <1>0, <1>2, <1>4, <2>1, SendersAreServers DEF SentIsImported
  <1> QED
    BY <1>4, <1>5, <1>6, <1>7 DEF ChainInv

LEMMA ImportLateStep ==
  ASSUME ChainInv, NEW n \in Senders, NEW u \in Chain,
         ImportLate(n,
    u)
  PROVE  ChainInv'
  <1>0. TypeOK /\ UploaderHas /\ SentIsImported
    BY DEF ChainInv
  <1>1. /\ u \in late[n]
        /\ docs' = [docs EXCEPT ![n + 1] = docs[n + 1] \cup {u}]
        /\ late' = [late EXCEPT ![n] = late[n] \ {u}]
        /\ UNCHANGED <<now, stamp, last, pc, batch, todo, failures>>
    BY DEF ImportLate
  <1>2. /\ docs' \in [Chain -> SUBSET Chain]
        /\ \A m \in Chain : docs[m] \subseteq docs'[m]
        /\ OriginKeeps' /\ LastIsDelivered'
    BY <1>0, <1>1, ImportKeeps DEF UploaderHas
  <1>3. TypeOK'
    BY <1>0, <1>1, <1>2 DEF TypeOK
  <1>4. UploaderHas'
    BY <1>0, <1>1, <1>2, SendersAreServers DEF UploaderHas, TypeOK
  <1>5. SentIsImported'
    BY <1>0, <1>1, <1>2, SendersAreServers DEF SentIsImported
  <1> QED
    BY <1>2, <1>3, <1>4, <1>5 DEF ChainInv

\* Steps of an uploader that leave the databases alone
LEMMA UploaderStep ==
  ASSUME ChainInv, NEW n \in Senders,
         Fetch(n) \/ Send(n) \/ Acknowledge(n) \/ Mark(n) \/ Fails(n)
  PROVE  ChainInv'
  <1>0. TypeOK /\ OriginKeeps /\ UploaderHas /\ SentIsImported /\ LastIsDelivered
    BY DEF ChainInv
  <1>1. UNCHANGED <<now, stamp, docs>>
    BY DEF Fetch, Send, Acknowledge, Mark, Fails
  <1>2. OriginKeeps'
    BY <1>0, <1>1 DEF OriginKeeps
  <1>3. n \in Chain /\ docs[n] \subseteq Chain
    BY <1>0, SendersAreServers DEF TypeOK
  <1>4. CASE Fetch(n)
    <2>1. NotYetUploaded(n) \subseteq docs[n] /\ NotYetUploaded(n) # {}
      BY <1>4 DEF Fetch, NotYetUploaded
    <2>2. TypeOK' /\ UploaderHas' /\ SentIsImported' /\ LastIsDelivered'
      BY <1>0, <1>1, <1>3, <1>4, <2>1
      DEF Fetch, Goto, TypeOK, UploaderHas, SentIsImported, LastIsDelivered
    <2> QED
      BY <1>2, <2>2 DEF ChainInv
  <1>5. CASE Send(n)
    <2>1. TypeOK' /\ UploaderHas' /\ SentIsImported' /\ LastIsDelivered'
      BY <1>0, <1>1, <1>5
      DEF Send, Goto, TypeOK, UploaderHas, SentIsImported, LastIsDelivered
    <2> QED
      BY <1>2, <2>1 DEF ChainInv
  <1>6. CASE Acknowledge(n)
    <2>1. TypeOK' /\ UploaderHas' /\ SentIsImported' /\ LastIsDelivered'
      BY <1>0, <1>1, <1>6
      DEF Acknowledge, Goto, TypeOK, UploaderHas, SentIsImported, LastIsDelivered
    <2> QED
      BY <1>2, <2>1 DEF ChainInv
  <1>7. CASE Mark(n)
    <2>1. PICK u \in batch[n] : last' = [last EXCEPT ![n] = stamp[u]]
      BY <1>7 DEF Mark
    <2>2. u \in docs[n + 1] /\ stamp[u] \in Times
      BY <1>0, <1>3, <1>7, <2>1 DEF Mark, SentIsImported, UploaderHas, TypeOK
    <2>3. TypeOK' /\ UploaderHas' /\ SentIsImported'
      BY <1>0, <1>1, <1>7, <2>1, <2>2
      DEF Mark, Idle, TypeOK, UploaderHas, SentIsImported
    <2>4. LastIsDelivered'
      BY <1>0, <1>1, <2>1, <2>2 DEF LastIsDelivered, TypeOK
    <2> QED
      BY <1>2, <2>3, <2>4 DEF ChainInv
  <1>8. CASE Fails(n)
    <2>1. PICK rest \in {{}, todo[n]} : late' = [late EXCEPT ![n] = late[n] \cup rest]
      BY <1>8 DEF Fails
    <2>2. rest \subseteq docs[n]
      BY <1>0 DEF UploaderHas
    <2>3. TypeOK'
      BY <1>0, <1>1, <1>3, <1>8, <2>1, <2>2
      DEF Fails, Failure, Idle, TypeOK
    <2>4. UploaderHas' /\ SentIsImported' /\ LastIsDelivered'
      BY <1>0, <1>1, <1>8, <2>1, <2>2
      DEF Fails, Idle, TypeOK, UploaderHas, SentIsImported, LastIsDelivered
    <2> QED
      BY <1>2, <2>3, <2>4 DEF ChainInv
  <1> QED
    BY <1>4, <1>5, <1>6, <1>7, <1>8

\* ChainInv is inductive.
THEOREM MetadataIsSound == ChainSpec => []ChainInv
  <1>1. ChainInv /\ Tick => ChainInv'
    BY DEF Tick, uploader, ChainInv, TypeOK, OriginKeeps, UploaderHas,
           SentIsImported, LastIsDelivered, Times
  <1>2. ChainInv /\ UNCHANGED chain => ChainInv'
    BY DEF chain, uploader, ChainInv, TypeOK, OriginKeeps, UploaderHas,
           SentIsImported, LastIsDelivered
  <1>3. ChainInv /\ ChainNext => ChainInv'
    BY <1>1, GetThisServerStep, ImportStep, ImportLateStep, UploaderStep DEF ChainNext, Upload
  <1> QED
    BY <1>2, <1>3, InitChainInv, PTL DEF ChainSpec

\* Every variable keeps its type.
THEOREM MetadataTypeCorrect == ChainSpec => []TypeOK
  <1>1. ChainInv => TypeOK
    BY DEF ChainInv
  <1> QED
    BY <1>1, MetadataIsSound, PTL

\* The timestamp an uploader goes on from is that of a document which the next
\* server has, whatever was lost, killed or imported late.
THEOREM LastIsDeliveredHolds == ChainSpec => []LastIsDelivered
  <1>1. ChainInv => LastIsDelivered
    BY DEF ChainInv
  <1> QED
    BY <1>1, MetadataIsSound, PTL

================================================================================
