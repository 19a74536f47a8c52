------------------------------ MODULE WireFormat ------------------------------
(***************************************************************************)
(* What becomes of a document's stamp, its facts and its body on the way   *)
(* from a client to a server and from server to server: common/utils.py,   *)
(* common/fields.py, common/deserializer.py, the request of                *)
(* common/connect.py, the hydration in common/api.py, the pre_save hooks   *)
(* of common/models.py.                                                    *)
(*                                                                         *)
(* A client writes dates as it likes, by the clock of its own zone and     *)
(* with or without saying which that is; a server writes str(datetime),    *)
(* which no ISO parser reads, and stores whole milliseconds.  Two kinds of *)
(* resource receive them: "usage" (ProductUsageResource: the date is part  *)
(* of the unique key) and "object" (BaseResource: updated decides which    *)
(* version stays).  One document is followed, along a chain of servers.    *)
(*                                                                         *)
(* A key of the facts is what matters of it: ".", "$", what they are       *)
(* replaced by, or "plain".  The value of a fact is the key it was sent    *)
(* under.                                                                  *)
(***************************************************************************)
EXTENDS Integers

CONSTANTS
  Last,        \* the servers are 1..Last, each forwards to the next
  Ticks,       \* bound: clock readings, in parts of a millisecond
  MsTicks,     \* of which a millisecond has so many
  FactKeys,    \* the sets of keys that facts are sent with
  MaxSends,    \* bound: messages of the client and check-ins
  MaxFaults,   \* bound: broken bodies, lost answers
  None

ASSUME ConstantsAssumption ==
  /\ Last \in Nat \ {0}
  /\ Ticks \in Nat /\ MsTicks \in Nat \ {0} /\ MaxSends \in Nat /\ MaxFaults \in Nat

VARIABLES
  resource,  \* "usage" or "object": what kind of document is followed
  db,        \* db[n]: the documents of server n
  message,   \* the request on its way, or None
  status,    \* the answer to the last one
  sends, faults

vars == <<resource, db, message, status, sends, faults>>

Servers == 1..Last

-----------------------------------------------------------------------------
(* Dates *)

\* A written date: ISO 8601, the form of str(datetime), blank, or something else.
DateTexts == [form : {"iso", "space"}, local : 0..Ticks, zone : {"none", "utc", "east"}]
             \cup [form : {"blank", "word"}, local : {0}, zone : {"none"}]
Homes == {"utc", "east"}
Offset(zone) == IF zone = "east" THEN MsTicks ELSE 0
Millisecond(t) == t - (t % MsTicks)
Instant(d) == d.local - Offset(d.zone)

\* Mutant: there is no second parser
IsoOnly(text) == text.form = "iso"

\* isodate.parse_datetime, or else dateutil's parser
Parses(text) == text.form \in {"iso", "space"}

\* Mutant: every date is taken as UTC
TakenAsUtc(text) == [local |-> text.local, zone |-> "utc"]

\* convert_to_datetime of a text that parses: without a zone it is taken as UTC
Converted(text) == [local |-> text.local, zone |-> IF text.zone = "none" THEN "utc" ELSE text.zone]

\* MongoDB: whole milliseconds, read back with tz_aware.  prepare_query_value leaves a
\* datetime as it is.
InMongo(d) == [local |-> Millisecond(Instant(d)), zone |-> "utc"]

\* MongoEncoder: str(datetime)
Written(d) == [form |-> "space", local |-> d.local, zone |-> d.zone]

-----------------------------------------------------------------------------
(* Facts *)

\* sanitize_key_for_mongo
Clean(key) == IF key = "." THEN "_dot_" ELSE IF key = "$" THEN "_dollarsign_" ELSE key

\* sanitize_dict_for_mongo: of two keys that become one the later in the dict wins
Sanitized(facts) ==
  {f \in [{Clean(k) : k \in DOMAIN facts} -> {facts[k] : k \in DOMAIN facts}] :
     \A c \in DOMAIN f : \E k \in DOMAIN facts : Clean(k) = c /\ f[c] = facts[k]}

-----------------------------------------------------------------------------
(* Messages and documents *)

\* Kept to compare with: the instant that an author whose clock shows the time of the zone
\* home means by a date, and whether the date tells it.
Meant(date, home) ==
  [at |-> date.local - Offset(IF date.zone = "none" THEN home ELSE date.zone),
   told |-> date.zone # "none" \/ home = "utc"]

Message(to, date, facts, meant) ==
  [to |-> to, date |-> date, facts |-> facts, meant |-> meant,
   gzip |-> FALSE, header |-> FALSE, broken |-> FALSE]
Forwarded(m) == m.to > 1

Stamp(doc) == doc.stamp.local
Document(d, facts, meant) == [stamp |-> InMongo(d), facts |-> facts, meant |-> meant]

Init == /\ resource \in {"usage", "object"}
        /\ db = [n \in Servers |-> {}]
        /\ message = None /\ status = None
        /\ sends = 0 /\ faults = 0

Fault == faults < MaxFaults /\ faults' = faults + 1

\* A client posts: any text as a date, any facts, compressed or not, with the header that
\* says so or without.
Post(date, home, keys, gzip, header) ==
  /\ message = None /\ sends < MaxSends
  /\ sends' = sends + 1
  /\ message' = [Message(1, date, [k \in keys |-> k], IF Parses(date) THEN Meant(date, home) ELSE None)
                   EXCEPT !.gzip = gzip, !.header = header]
  /\ UNCHANGED <<resource, db, status, faults>>

\* send_data and _request: what the database has goes on, gzip_body or not
Forward(n, doc, gzip) ==
  /\ message = None /\ n < Last /\ doc \in db[n]
  /\ message' = [Message(n + 1, Written(doc.stamp), doc.facts, doc.meant)
                   EXCEPT !.gzip = gzip, !.header = gzip]
  /\ UNCHANGED <<resource, db, status, sends, faults>>

\* The body is cut short on its way.
Break == /\ message # None /\ ~message.broken
         /\ Fault
         /\ message' = [message EXCEPT !.broken = TRUE]
         /\ UNCHANGED <<resource, db, status, sends>>

\* The body becomes data.  JsonGzipSerializer tries to decompress whatever comes and goes
\* on with the body if it is not compressed; ProductUsageResource goes by the header.
Readable(m) == ~m.broken /\ (resource = "usage" => m.gzip = m.header)

\* The answer is received, or lost and the request sent again.
Answer(code) == /\ status' = code
                /\ \/ message' = None /\ UNCHANGED faults
                   \/ Fault /\ UNCHANGED message
                /\ UNCHANGED <<resource, sends>>

\* A body or a date that cannot be read; a usage record without a date is not valid.
\* UnsupportedDateFormatException and post_list of usage answer 400.
Refuse == /\ message # None
          /\ \/ ~Readable(message) /\ Answer(IF resource = "usage" THEN 400 ELSE 500)
             \/ /\ Readable(message) /\ ~Parses(message.date)
                /\ message.date.form = "blank" => resource = "usage"
                /\ Answer(400)
          /\ UNCHANGED db

\* The dates of the object: hydrate_updated puts the time for a blank one.
Dates(m) == IF m.date.form = "blank" THEN [local : 0..Ticks, zone : {"utc"}] ELSE {Converted(m.date)}
Accepts == message # None /\ Readable(message) /\ (Parses(message.date) \/ message.date.form = "blank")

\* Mutant: the date is not part of the unique key
SameRecord(doc, d) == TRUE

\* The unique index of usage compares what is stored.
SameDate(doc, d) == doc.stamp = InMongo(d)

\* record_usage of a check-in: datetime.now(), which has no zone and which MongoDB takes as
\* UTC.  When the record is there already, the save raises, and that is logged.
Record(n, time, home, keys) ==
  /\ resource = "usage" /\ sends < MaxSends
  /\ sends' = sends + 1
  /\ LET naive == [local |-> time, zone |-> "none"] IN
       IF \E doc \in db[n] : SameDate(doc, naive) THEN UNCHANGED db
       ELSE \E facts \in Sanitized([k \in keys |-> k]) :
              db' = [db EXCEPT ![n] = @ \cup {Document(naive, facts, Meant(naive, home))}]
  /\ UNCHANGED <<resource, message, status, faults>>

\* ModifiedProductUsageResource.import_hook: inserted, or there already
Import == /\ resource = "usage" /\ Accepts /\ message.date.form # "blank"
          /\ LET d == Converted(message.date) IN
               IF \E doc \in db[message.to] : SameDate(doc, d) THEN UNCHANGED db
               ELSE \E facts \in Sanitized(message.facts) :
                      db' = [db EXCEPT ![message.to] = @ \cup {Document(d, facts, message.meant)}]
          /\ Answer(202)

\* Mutant: a version as new as the one here is taken
AsNew(d, doc) == Instant(d) >= Stamp(doc)

\* obj.updated > existing.updated
Newer(d, doc) == Instant(d) > Stamp(doc)

\* create_hook: inserted, overwritten by a newer one, or ignored.
Create == /\ resource = "object" /\ Accepts
          /\ \E d \in Dates(message), facts \in Sanitized(message.facts) :
               LET new == Document(d, facts, message.meant) IN
                 IF \A doc \in db[message.to] : Newer(d, doc)
                   THEN db' = [db EXCEPT ![message.to] = {new}] ELSE UNCHANGED db
          /\ Answer(204)

Next == \/ \E date \in DateTexts, home \in Homes, keys \in FactKeys,
             gzip \in BOOLEAN, header \in BOOLEAN : Post(date, home, keys, gzip, header)
        \/ \E n \in Servers, time \in 0..Ticks, home \in Homes, keys \in FactKeys :
             Record(n, time, home, keys)
        \/ \E n \in Servers : \E doc \in db[n], gzip \in BOOLEAN : Forward(n, doc, gzip)
        \/ Break \/ Refuse \/ Import \/ Create

Spec == Init /\ [][Next]_vars

-----------------------------------------------------------------------------
(* Properties *)

Documents == UNION {db[n] : n \in Servers}

\* However a date is written and however many servers it has passed, what is stored is the
\* instant its author meant, to the millisecond, if the author is at UTC or has told its
\* zone; any other date is taken as UTC, that of the check-ins of a server among them.
\* MongoDB would refuse a key with "." or "$"; and one usage record is stored once, one
\* object in one version.
Faithful ==
  /\ \A doc \in Documents :
       doc.meant # None /\ doc.meant.told => Stamp(doc) = Millisecond(doc.meant.at)
  /\ \A doc \in Documents : DOMAIN doc.facts \cap {".", "$"} = {}
  /\ \A n \in Servers : \A d, e \in db[n] :
       (resource = "object" \/ Stamp(d) = Stamp(e)) => d = e

\* Why: what is in a database is whole and clean, and so is what is forwarded from it;
\* a message that tells what its author meant has a date that reads as that.
Whole(t) == Millisecond(t) = t
Fitting(facts) == facts = [k \in DOMAIN facts |-> facts[k]]
CleanFacts(facts) == Fitting(facts) /\ DOMAIN facts \cap {".", "$"} = {}
DocumentOK(doc) ==
  /\ doc.stamp \in [local : Int, zone : {"utc"}] /\ Whole(Stamp(doc))
  /\ CleanFacts(doc.facts)
  /\ doc.meant # None /\ doc.meant.told => Stamp(doc) = Millisecond(doc.meant.at)
MessageOK(m) ==
  /\ m.to \in Servers /\ Fitting(m.facts)
  /\ m.date \in [form : {"iso", "space", "blank", "word"}, local : Int, zone : {"none", "utc", "east"}]
  /\ m.meant # None => Parses(m.date)
  /\ m.meant # None /\ m.meant.told => Millisecond(Instant(m.date)) = Millisecond(m.meant.at)
  /\ Forwarded(m) => /\ m.gzip = m.header /\ CleanFacts(m.facts)
                     /\ m.date.form = "space" /\ m.date.zone = "utc" /\ Whole(m.date.local)
WireInv ==
  /\ resource \in {"usage", "object"} /\ DOMAIN db = Servers
  /\ \A n \in Servers : \A doc \in db[n] : DocumentOK(doc)
  /\ \A n \in Servers : \A d, e \in db[n] :
       (resource = "object" \/ Stamp(d) = Stamp(e)) => d = e
  /\ message # None => MessageOK(message)

\* Whatever a server forwards the next one takes, unless the body is broken: str(datetime)
\* can be read back, is compared without an error, and the body decompressed when it was
\* compressed.
Receive == Refuse \/ Import \/ Create
ForwardedIsAccepted ==
  [][Receive /\ Forwarded(message) /\ ~message.broken => status' \in {202, 204}]_vars

\* What is forwarded arrives as it is: the next server stores the same stamp and the same
\* facts, and gives up a document only for a strictly newer one.
ForwardedIsSame ==
  [][Receive => \A n \in Servers \ {1} : db'[n] # db[n] =>
       \E doc \in db'[n] : /\ db'[n] \ db[n] = {doc}
                           /\ Written(doc.stamp) = message.date /\ doc.facts = message.facts
                           /\ \A old \in db[n] \ db'[n] : Stamp(doc) > Stamp(old)]_vars

\* A sender that has its 202 or 204 finds the document there under the date it has sent, or
\* a version at least as new, however often it had to send it.
DeliveredIsThere ==
  [][Receive /\ status' \in {202, 204} /\ Parses(message.date) =>
       \E doc \in db'[message.to] :
         IF resource = "usage" THEN Stamp(doc) = Millisecond(Instant(message.date))
                               ELSE Stamp(doc) >= Millisecond(Instant(message.date))]_vars

=============================================================================
