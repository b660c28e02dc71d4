-------------------------------- MODULE Header --------------------------------
(***************************************************************************)
(* The bookkeeping of header changes (internal/http/header.go): what       *)
(* APISIX sent is kept apart from what plugins set and deleted, and        *)
(* HeaderBuild sends the difference.  A header has one canonical name; a   *)
(* plugin may spell its key in another way.  A table maps every name to    *)
(* its values, none when the header is absent.                             *)
(***************************************************************************)
EXTENDS Sequences

CONSTANTS
  Names,    \* canonical header names
  Values,   \* header values
  Empty     \* the empty string

Key == [name : Names, spelling : {"canonical", "other"}]

Table == [Names -> Seq(Values)]

\* The fields of type Header.
HeaderRecord == [hdr : Table, rawHdr : Table, deleteField : SUBSET Key]

NoValues == [n \in Names |-> <<>>]

\* http.Header.Get on a table.
First(vs) == IF vs = <<>> THEN Empty ELSE vs[1]

newHeader(sent) == [hdr |-> NoValues, rawHdr |-> sent, deleteField |-> {}]

\* hdr is keyed by the canonical name, deleteField by the key as it is spelled.
Set(h, key, value) ==
  [h EXCEPT !.hdr[key.name] = <<value>>, !.deleteField = @ \ {key}]

\* A header is known to be deleted only if it had a value that is not empty.
Del(h, key) ==
  LET had == First(h.rawHdr[key.name]) # Empty IN
  [hdr |-> [h.hdr EXCEPT ![key.name] = <<>>],
   rawHdr |-> IF had THEN [h.rawHdr EXCEPT ![key.name] = <<>>] ELSE h.rawHdr,
   deleteField |-> IF had THEN h.deleteField \cup {key} ELSE h.deleteField]

Get(h, key) ==
  IF First(h.hdr[key.name]) # Empty THEN First(h.hdr[key.name])
  ELSE First(h.rawHdr[key.name])

\* Mutant: the deletions are sent last.
HeaderBuildDeletesLast(h) ==
  << {[name |-> n, values |-> <<h.hdr[n][1]>>] :
        n \in {m \in Names : h.hdr[m] # <<>> /\ First(h.rawHdr[m]) # h.hdr[m][1]}},
     {[name |-> key.name, values |-> <<>>] : key \in h.deleteField} >>

\* Two groups of entries, each in the order of a Go map: the deleted keys, then
\* the set ones whose first value is not the one APISIX sent.
HeaderBuild(h) ==
  << {[name |-> key.name, values |-> <<>>] : key \in h.deleteField},
     {[name |-> n, values |-> <<h.hdr[n][1]>>] :
        n \in {m \in Names :
                 /\ h.hdr[m] # <<>>
                 /\ h.rawHdr[m] = <<>> \/ h.rawHdr[m][1] # h.hdr[m][1]}} >>

\* APISIX (external) goes through the entries: one without a value removes the
\* header, any other replaces its values.
ApplyGroup(table, entries) ==
  [n \in Names |->
     IF \E e \in entries : e.name = n
       THEN (CHOOSE e \in entries : e.name = n).values
       ELSE table[n]]

Apply(table, built) == ApplyGroup(ApplyGroup(table, built[1]), built[2])
=============================================================================
