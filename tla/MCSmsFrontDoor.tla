---------------------------- MODULE MCSmsFrontDoor ----------------------------
(* The model-checking instance of SmsFrontDoor: addresses of 4 and of 6 bits, *)
(* and environments and requests that each vary in one respect.              *)
EXTENDS SmsFrontDoor

Seqs(S, n) == UNION {[1..k -> S] : k \in 0..n}

\* Addresses.  Three groups of two bits: all the whole ones, and those with "::".
V4(octets) == [form |-> "v4", head |-> octets, tail |-> None]
Mapped(octets) == [form |-> "mapped", head |-> octets, tail |-> None]
V6(head, tail) == [form |-> "v6", head |-> head, tail |-> tail]
Junk == [form |-> "other", head |-> <<>>, tail |-> None]

MCV6 ==
  {V6(head, None) : head \in [1..3 -> {0, 1, 2}]} \cup
  {V6(head, tail) : head \in Seqs({1, 2}, 2), tail \in Seqs({1, 3}, 2)}

MCCallers ==
  {V4(o) : o \in [1..2 -> 0..3]} \cup {Mapped(o) : o \in {<<1, 2>>, <<2, 1>>, <<1, 4>>}}
  \cup MCV6 \cup {V4(<<1>>), V4(<<1, 4>>), Junk, None}

Entry(address, prefix, n) == [address |-> address, prefix |-> prefix, prefixNumber |-> n]

MCEntries ==
  {Entry(a, "number", n) : a \in {V4(<<1, 2>>), V4(<<2, 1>>), Mapped(<<1, 2>>), Junk,
                                  V6(<<1>>, <<1>>), V6(<<>>, <<1>>), V6(<<1, 2, 1>>, None)},
                           n \in 0..7}
  \cup {Entry(a, p, 0) : a \in {V4(<<1, 2>>), V6(<<1>>, <<>>)}, p \in {"absent", "empty", "nan"}}

MCNetworks ==
  {<<e>> : e \in MCEntries}
  \cup {<<>>, <<None>>,
        <<None, Entry(V4(<<1, 2>>), "number", 3), Entry(V6(<<2>>, <<>>), "number", 2)>>}

\* Environments.
Word(name, padded) == [name |-> name, padded |-> padded]
MCPriorities ==
  {<<Word("bird", FALSE)>>, <<Word("twilio", TRUE)>>, <<Word("", FALSE)>>,
   <<Word("twilio", FALSE), Word("bird", TRUE)>>, <<Word("bird", TRUE), Word("twilio", FALSE)>>,
   <<Word("bird", FALSE), Word("bird", TRUE)>>, <<Word("bird", FALSE), Word("other", FALSE)>>}

AllCredentials == RequiredCredentials["twilio"] \cup RequiredCredentials["bird"]
MCCredentials ==
  {AllCredentials \ {c} : c \in AllCredentials}
  \cup {AllCredentials, RequiredCredentials["twilio"], RequiredCredentials["bird"], {}}

Environment(p, c, n, k, w) ==
  [priority |-> p, credentials |-> c, sidIsAccounts |-> TRUE, networks |-> n,
   keyBytes |-> k, wellFormed |-> w]

Both == <<Word("twilio", FALSE), Word("bird", TRUE)>>
Loopback == <<Entry(V4(<<1, 2>>), "absent", 0)>>

MCEnvironments ==
  {Environment(p, c, Loopback, 32, TRUE) : p \in MCPriorities, c \in MCCredentials}
  \cup {Environment(Both, AllCredentials, n, 32, TRUE) : n \in MCNetworks}
  \cup {Environment(Both, AllCredentials, Loopback, k, w) : k \in {0, 31, 32, 33}, w \in BOOLEAN}
  \cup {[Environment(p, AllCredentials, Loopback, 32, TRUE) EXCEPT !.sidIsAccounts = FALSE] :
          p \in MCPriorities}

\* Metadata: three levels with at most two entries each, and some with one more.
Leaf(kind, long) == [kind |-> kind, long |-> long, entries |-> <<>>]
Node(kind, entries) == [kind |-> kind, long |-> FALSE, entries |-> entries]
Under(refused, item) == [refused |-> refused, dropped |-> FALSE, item |-> item]
Reserved(item) == [refused |-> TRUE, dropped |-> TRUE, item |-> item]

Leaves == {Leaf("text", FALSE), Leaf("text", TRUE), Leaf("scalar", FALSE)}
Plain(S) == {Under(FALSE, item) : item \in S}
Shallow ==
  {Node(kind, entries) : kind \in {"list", "object"},
     entries \in Seqs(Plain({Leaf("text", FALSE)}), 2) \cup {<<Under(FALSE, Leaf("text", TRUE))>>}}
Refused == Node("object", <<Under(FALSE, Leaf("scalar", FALSE)), Under(TRUE, Leaf("scalar", FALSE))>>)
Drops ==
  {Node("object", <<Under(FALSE, Leaf("scalar", FALSE)), Reserved(item),
                    Under(FALSE, Leaf("text", long))>>) :
     item \in Leaves \cup {Refused}, long \in BOOLEAN}
Deep == {Node("object", <<e>>) : e \in Plain(Shallow \cup {Refused} \cup Drops)}

MCMetadata ==
  Leaves \cup {Refused} \cup Drops
  \cup {Node("object", entries) : entries \in Seqs(Plain(Shallow \cup {Leaf("text", FALSE)}), 2)}
  \cup {Node(kind, <<e>>) : kind \in {"list", "object"}, e \in Plain(Deep)}

Parts(S) == {e.item : e \in UNION {Range(item.entries) : item \in S}}
Sent ==
  MCMetadata \cup Parts(MCMetadata) \cup Parts(Parts(MCMetadata))
  \cup Parts(Parts(Parts(MCMetadata))) \cup Parts(Parts(Parts(Parts(MCMetadata))))

\* The conversion of every value, from the leaves up.
Conversion[item \in Sent] ==
  LET kept == SelectSeq(item.entries, LAMBDA entry : ~entry.dropped) IN
  [item EXCEPT !.entries =
     [i \in DOMAIN kept |-> [kept[i] EXCEPT !.item = Conversion[kept[i].item]]]]

MCItems == Sent \cup Range(Conversion)
MCConverted == [item \in MCItems |-> IF item \in Sent THEN Conversion[item] ELSE item]

\* Requests.
Body(to, message, metadata, oversized) ==
  [e164 |-> to, message |-> message, metadata |-> metadata, oversized |-> oversized]
Good == Body(TRUE, MaxMessageLength, None, FALSE)
Local == V4(<<1, 2>>)
SendRequest(caller, key, body) == [caller |-> caller, key |-> key, body |-> body]

MCSendRequests ==
  {SendRequest(caller, "key", Good) : caller \in MCCallers}
  \cup {SendRequest(Local, key, Good) : key \in {"absent", "blank", "key"}}
  \cup {SendRequest(Local, "key", Body(TRUE, 1, m, FALSE)) : m \in MCMetadata}
  \cup {SendRequest(Local, "key", Body(to, length, m, oversized)) :
          to \in BOOLEAN, length \in {None} \cup 0..(MaxMessageLength + 1),
          m \in {None, Node("object", <<>>)}, oversized \in BOOLEAN}

=============================================================================
