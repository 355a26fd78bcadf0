------------------------------ MODULE Providers ------------------------------
(***************************************************************************)
(* Which resolvers the proxy has, through starts, reloads (SIGHUP) and the *)
(* certificates that the resolvers send: cresponder::load and reload,      *)
(* responder::reload, find_valid_certificate, random_provider and          *)
(* save_providers.                                                         *)
(*                                                                         *)
(* The files are read by a start and by a reload only, so a change of them *)
(* is modelled together with the next of these.  When certificates are     *)
(* asked for is the matter of module Certifier.                            *)
(***************************************************************************)
EXTENDS ResolverFiles

CONSTANTS
  Files,            \* a sequence: what a start or a reload may find
  Answers,          \* for each address, the certificates a response may carry
  Askable,          \* provider names that a DNS query can be made for
  OnionTexts,       \* what the option for .onion names may be, "" if it is not set
  MaxEntry,         \* MAX_QNAME_LENGTH
  Now               \* the time; certificates are chosen around it

\* The servers of the lists, with the port filled in.
Addresses == {address(<<w>>, CryptPort) : w \in DOMAIN AddressParts}

\* uint16_t
Short == 0 .. 65535

Certificate ==
    [major : Short, minor : Short, serial : Nat, signer : KeyTexts,
     begin : Nat, end : Nat, weak : BOOLEAN]

\* A query is made for names of letters, digits, hyphens and dots only; every
\* port of an address can be printed.
ASSUME ProvidersAssumption ==
  /\ OnionTexts \subseteq STRING
  /\ MaxEntry \in Nat
  /\ \A f \in DOMAIN Files : Files[f].filters \subseteq Nat
  /\ Now \in Nat
  /\ MaxColumns \in Nat /\ MaxColumns >= 3
  /\ \A f \in DOMAIN Files : Files[f].list.readable =>
        Files[f].list.lines \in Seq(Seq(STRING)) \ {<<>>}
  /\ Answers \in [Addresses -> SUBSET Seq(Certificate)]
  /\ Askable \subseteq Seq(Words) \ {<<>>}
  /\ DOMAIN AddressParts \subseteq Words /\ KeyTexts \subseteq Words
  /\ \A w \in DOMAIN AddressParts : AddressParts[w] \in [ip : STRING, port : Nat \cup {NoPort}]
  /\ \A a \in Addresses : \E w \in DOMAIN AddressParts : AddressParts[w] = a

VARIABLES
  up,               \* "down", "running", "stopped", "unsaved" or "failed"
  noipv6,           \* the option of that name
  onion,            \* the option of that name
  files,            \* which of Files the last start or reload found, 0 for none
  plain,            \* dns_providers_
  hosts,            \* hosts_ptr_
  providers,        \* dnscrypt_providers_, with what each certifier has
  weakDropped       \* a resolver with a weak key was dropped: questions may wait for it

providersVars == <<up, noipv6, onion, files, plain, hosts, providers, weakDropped>>

NoProviders == [a \in {} |-> 0]
NoCert  == [none |-> TRUE]
NotSeen == [asked |-> FALSE]

ProvidersInit ==
  /\ up = "down"
  /\ noipv6 \in BOOLEAN
  /\ onion \in OnionTexts
  /\ files = 0
  /\ plain = <<>>
  /\ hosts = NoHosts
  /\ providers = NoProviders
  /\ weakDropped = FALSE

-----------------------------------------------------------------------------
(* cresponder::load *)

\* A certifier as its constructor leaves it; `seen' is a history variable.
certifier(row) ==
    [name |-> row.name, key |-> row.key, ready |-> FALSE, cert |-> NoCert, seen |-> NotSeen]

\* A usable row is added unless its address is there already.
Merge(map, row) ==
    [a \in DOMAIN map \cup {row.address} |->
        IF a \in DOMAIN map THEN map[a] ELSE certifier(row)]

\* Mutant of RowMerged: rows that are not used are counted too.
RowCounted(s, row) ==
    IF noipv6 /\ IsSix(row.address)
    THEN [map |-> [a \in DOMAIN s.map \ {row.address} |-> s.map[a]], used |-> s.used + 1]
    ELSE [map |-> Merge(s.map, row), used |-> s.used + 1]

RowMerged(s, row) ==
    IF noipv6 /\ IsSix(row.address)
    THEN [s EXCEPT !.map = [a \in DOMAIN @ \ {row.address} |-> @[a]]]
    ELSE [map |-> Merge(s.map, row), used |-> s.used + 1]

\* Mutant of Listed: addresses that are no longer listed stay.
ListedOrOld(map, rows) == map

\* The second loop drops what is not listed.
Listed(map, rows) ==
    [a \in {b \in DOMAIN map : \E i \in DOMAIN rows : rows[i].address = b} |-> map[a]]

\* The first loop, after each number of turns.
MergeStates(old, rows) ==
    LET merged[k \in 0 .. Len(rows)] ==
            IF k = 0 THEN [map |-> old, used |-> 0] ELSE RowMerged(merged[k - 1], rows[k])
    IN  merged

Merged(old, rows) ==
    LET s == MergeStates(old, rows)[Len(rows)]
    IN  [map |-> Listed(s.map, rows), used |-> s.used]

\* What the parsers make of each of the files.
ListRead   == [f \in DOMAIN Files |-> parse_resolvers_list(Files[f].list)]
ResolvRead == [f \in DOMAIN Files |-> [no6 \in BOOLEAN |-> from_file(Files[f].resolv, no6)]]
HostsRead  == [f \in DOMAIN Files |-> [no6 \in BOOLEAN |-> hosts_file(Files[f].hosts, no6)]]

\* Mutant of Load: a list that cannot be read leaves no resolvers.
LoadNothing(old, f) ==
    LET rows == ListRead[f]
        m    == Merged(old, rows.value)
    IN  IF rows.threw THEN [map |-> NoProviders, throws |-> FALSE]
        ELSE [map |-> m.map, throws |-> Cardinality(DOMAIN m.map) # m.used]

\* A runtime_error is caught and nothing is changed; the logic_error of the
\* last check leaves load and ends the process.
Load(old, f) ==
    LET rows == ListRead[f]
        m    == Merged(old, rows.value)
    IN  IF rows.threw THEN [map |-> old, throws |-> FALSE]
        ELSE [map |-> m.map, throws |-> Cardinality(DOMAIN m.map) # m.used]

\* The constructor of address throws for the option.
BadOnion == onion \notin DOMAIN AddressParts \cup {""}

\* The constructor of filter throws for a word of the black or white lists, of
\* which only the lengths matter here.
TooLong(f) == \E length \in Files[f].filters : length > MaxEntry

\* The resolver's key is one that crypto_box refuses.
WeakKey(p) == p.cert # NoCert /\ p.cert.weak

\* responder::reload and then load.  The runtime_error of from_file is caught,
\* those of the filters, the option and the hosts file are not; a process that
\* ends leaves nothing behind.
Read(f, oldPlain, oldMap, oldWeak) ==
    LET servers == ResolvRead[f][noipv6]
        names   == HostsRead[f][noipv6]
        list    == Load(oldMap, f)
        fails   == TooLong(f) \/ BadOnion \/ names.threw \/ list.throws
        dropped == DOMAIN oldMap \ DOMAIN providers'
    IN  /\ files' = f
        /\ up' = IF fails THEN "failed" ELSE "running"
        /\ IF up' = "failed"
             THEN plain' = <<>> /\ hosts' = NoHosts /\ providers' = NoProviders /\ weakDropped' = FALSE
             ELSE /\ plain' = IF servers.threw THEN oldPlain ELSE servers.value
                  /\ hosts' = names.value
                  /\ providers' = list.map
                  /\ weakDropped' = (oldWeak \/ \E a \in dropped : WeakKey(oldMap[a]))
        /\ UNCHANGED <<noipv6, onion>>

\* The constructor of cresponder and cdaemon::execute.
Start(f) ==
    /\ up # "running"
    /\ Read(f, <<>>, NoProviders, FALSE)

\* The handler of SIGHUP.
Reload(f) ==
    /\ up = "running"
    /\ Read(f, plain, providers, weakDropped)

-----------------------------------------------------------------------------
(* resolver::find_valid_certificate *)

Version(c) == c.major * 65536 + c.minor

\* Mutant of is_preferred_over: the serial number alone decides.
is_newer(c, previous) == previous.serial <= c.serial

is_preferred_over(c, previous) ==
    \/ Version(previous) < Version(c)
    \/ Version(previous) = Version(c) /\ previous.serial <= c.serial

\* The constructor of certificate throws invalid_certificate otherwise.
IsValid(c, key) ==
    /\ c.major \in {1, 2}
    /\ c.signer = key
    /\ c.begin < c.end
    /\ c.begin <= Now /\ Now <= c.end

Better(best, c, key) ==
    IF IsValid(c, key) /\ (best = NoCert \/ is_preferred_over(c, best)) THEN c ELSE best

\* The loop over the certificates, after each number of turns.
BestStates(certs, key) ==
    LET best[k \in 0 .. Len(certs)] ==
            IF k = 0 THEN NoCert ELSE Better(best[k - 1], certs[k], key)
    IN  best

Chosen(certs, key) == BestStates(certs, key)[Len(certs)]

\* Mutant of CanBeAsked: a query can be made for every name.
AllAsked(p) == TRUE

\* The constructor of the query for the certificate does not throw.
CanBeAsked(p) == p.name \in Askable

\* certifier::process_response, called with the TXT answers of a response.  The
\* keys are ephemeral: set_resolver_publickey stores a weak key like any other.
Respond(a, certs) ==
    LET p    == providers[a]
        cert == Chosen(certs, p.key)
    IN  /\ up = "running"
        /\ CanBeAsked(p)
        /\ providers' = [providers EXCEPT ![a] =
                [name |-> p.name, key |-> p.key, ready |-> cert # NoCert,
                 cert |-> IF cert = NoCert THEN p.cert ELSE cert,
                 seen |-> [asked |-> TRUE, certs |-> certs]]]
        /\ UNCHANGED <<up, noipv6, onion, files, plain, hosts, weakDropped>>

-----------------------------------------------------------------------------
(* Using the resolvers *)

Ready == {a \in DOMAIN providers : providers[a].ready}

\* The kinds of provider a question may be sent to; none is a SERVFAIL.
random_provider(isOnion) ==
    IF isOnion /\ onion # "" THEN {"onion"}
    ELSE IF DOMAIN providers = {} THEN {"plain" : i \in DOMAIN plain}
    ELSE {"crypt" : a \in Ready}

\* encryptor::fold of a question for a resolver with a weak key, one that was
\* dropped while the question waited to be sent included.  crypt_failure is a
\* runtime_error and no net_error: it leaves on_send and the loop.
FoldFails ==
    /\ up = "running"
    /\ weakDropped \/ \E a \in DOMAIN providers : WeakKey(providers[a])
    /\ up' = "failed"
    /\ UNCHANGED <<noipv6, onion, files, plain, hosts, providers, weakDropped>>

\* save_providers, every seven minutes and when the loop has ended.
save_providers ==
    LET r == SetToSeq(Ready)
    IN  Saved([i \in DOMAIN r |-> [address |-> r[i], name |-> providers[r[i]].name,
                                   key |-> providers[r[i]].key]])

Gone ==
    /\ plain' = <<>> /\ hosts' = NoHosts /\ providers' = NoProviders /\ weakDropped' = FALSE
    /\ UNCHANGED <<noipv6, onion, files>>

\* The file cannot be written: nothing catches the runtime_error.  A part that
\* fails in the last flush goes unnoticed; SavedReadsBack says how it is read.
SaveFails ==
    /\ up = "running"
    /\ up' = "unsaved"
    /\ Gone

\* SIGINT or SIGTERM.
Terminate ==
    /\ up = "running"
    /\ up' = "stopped"
    /\ Gone

ProvidersNext ==
    \/ \E f \in DOMAIN Files : Start(f)
    \/ \E f \in DOMAIN Files : Reload(f)
    \/ \E a \in DOMAIN providers : \E certs \in Answers[a] : Respond(a, certs)
    \/ FoldFails
    \/ SaveFails
    \/ Terminate

ProvidersSpec == ProvidersInit /\ [][ProvidersNext]_providersVars

-----------------------------------------------------------------------------
(* What the files say *)

Titles == {"Resolver address", "Provider name", "Provider public key"}

RowIsGood(header, row) ==
    \/ row.style = "blank"
    \/ /\ \/ row.style \in {"quoted", "tail"}
          \/ row.style \in {"plain", "return"} /\ ~Contains(row.name, Separator)
       /\ Titles \subseteq {header[i] : i \in DOMAIN header}
       /\ row.address \in DOMAIN AddressParts
       /\ row.name # <<>>
       /\ row.key \in KeyTexts

ListIsGood(l) ==
    /\ l.readable
    /\ Len(l.header) >= 3
    /\ \A i \in DOMAIN l.rows : RowIsGood(l.header, l.rows[i])

\* The rows of a list that can be used, by their numbers.
Usable(l, no6) ==
    {i \in DOMAIN l.rows : /\ l.rows[i].style # "blank"
                           /\ ~(no6 /\ AddressParts[l.rows[i].address].ip \in Six)}

\* Where an author of a list or of resolv.conf means the server to be.
Place(word, port) ==
    LET a == AddressParts[word] IN [ip |-> a.ip, port |-> IF a.port = NoPort THEN port ELSE a.port]

Places(l, no6) == {Place(l.rows[i].address, CryptPort) : i \in Usable(l, no6)}

\* Two rows that can be used name the same server.
NamedTwice(l, no6) ==
    ListIsGood(l) /\ Cardinality(Places(l, no6)) # Cardinality(Usable(l, no6))

\* A list that could be read names no resolver that can be used.
NothingListed(l, no6) == ListIsGood(l) /\ Places(l, no6) = {}

SomeBad(f) == \E i \in DOMAIN f.meant : f.meant[i].bad

\* The servers of resolv.conf in their order.
Servers(f, no6) ==
    LET words == FlattenSeq([i \in DOMAIN f.meant |-> f.meant[i].servers])
        used  == SelectSeq(words, LAMBDA w : ~(no6 /\ AddressParts[w].ip \in Six))
    IN  [i \in DOMAIN used |-> Place(used[i], DnsPort)]

\* The lines of the hosts file that give the name an address, by their numbers.
Giving(f, name, no6) ==
    {i \in DOMAIN f.meant : /\ name \in f.meant[i].names
                            /\ ~(no6 /\ AddressParts[f.meant[i].ip].ip \in Six)}

HostsSaid(f, no6) ==
    LET names == {n \in UNION {f.meant[i].names : i \in DOMAIN f.meant} : Giving(f, n, no6) # {}}
    IN  [n \in names |->
            f.meant[CHOOSE i \in Giving(f, n, no6) : \A j \in Giving(f, n, no6) : i <= j].ip]

\* A list that is good, and no other, is read: its rows, but the blank ones,
\* each once and at the place that is meant.
ListReadAsMeant(l, read) ==
    /\ read.threw <=> ~ListIsGood(l)
    /\ ~read.threw =>
          LET said == {i \in DOMAIN l.rows : l.rows[i].style # "blank"}
          IN  \E at \in [DOMAIN read.value -> said] :
                /\ \A j, k \in DOMAIN read.value : at[j] = at[k] => j = k
                /\ \A i \in said : \E j \in DOMAIN read.value : at[j] = i
                /\ \A j \in DOMAIN read.value :
                      read.value[j].address = Place(l.rows[at[j]].address, CryptPort)

\* parse_resolvers_list, from_file and the constructor of hosts make of each of
\* the files what its author means.
ReadAsMeant ==
    \A f \in DOMAIN Files :
        /\ ListReadAsMeant(Files[f].list, ListRead[f])
        /\ \A no6 \in BOOLEAN :
              LET servers == ResolvRead[f][no6]
                  names   == HostsRead[f][no6]
                  resolv  == Files[f].resolv
                  file    == Files[f].hosts
              IN  /\ servers.threw <=> resolv.readable /\ SomeBad(resolv)
                  /\ ~servers.threw =>
                        servers.value = IF resolv.readable THEN Servers(resolv, no6) ELSE <<>>
                  /\ names.threw <=> ~file.readable \/ SomeBad(file)
                  /\ ~names.threw => names.value = HostsSaid(file, no6)

-----------------------------------------------------------------------------
(* Properties *)

\* After cresponder::load the encrypted resolvers are those of the list, and
\* after responder::reload the plain resolvers those of resolv.conf and the
\* local names those of the hosts file, whatever was loaded before: each
\* server once under its address with the port filled in, IPv6 only if wanted,
\* for a name the first of its lines.  Files that cannot be read are not
\* covered, nor is the last nameserver of a resolv.conf without a final line
\* break, which from_file does not see.
FollowsFiles ==
    LET f == Files[files]
    IN  up = "running" =>
            /\ ListIsGood(f.list) => DOMAIN providers = Places(f.list, noipv6)
            /\ (f.resolv.readable /\ ~SomeBad(f.resolv)) => plain = Servers(f.resolv, noipv6)
            /\ ~f.resolv.readable => plain = <<>>
            /\ hosts = HostsSaid(f.hosts, noipv6)

\* A reload does not take a resolver out of service: a resolver that is still
\* listed stays as it is, with its key and certificate, and random_provider
\* changes over to the plain, unencrypted resolvers only if a list that could
\* be read names no encrypted one.
ReloadKeepsService ==
    [][up = "running" /\ up' = "running" =>
        /\ files' # files => \A a \in DOMAIN providers \cap DOMAIN providers' :
                                providers'[a] = providers[a]
        /\ (DOMAIN providers # {} /\ "plain" \in random_provider(FALSE)')
            => NothingListed(Files[files'].list, noipv6)]_providersVars

\* What responder::reload and cresponder::load do not survive: the option for
\* .onion names is no address, a word of a filter is too long, the hosts file
\* cannot be read or has a line that does not begin with an address, or the list
\* names a server twice.
Fatal ==
    \/ onion # "" /\ onion \notin DOMAIN AddressParts
    \/ ~(Files[files].filters \subseteq 0 .. MaxEntry)
    \/ ~Files[files].hosts.readable \/ SomeBad(Files[files].hosts)
    \/ NamedTwice(Files[files].list, noipv6)

\* A process runs only with files and options that are not Fatal; the exceptions
\* of reload, load and fold that end it mean that they are, or that a resolver
\* which was accepted with a weak key has that key still.
FailsForReason ==
    /\ up = "running" => ~Fatal
    /\ up = "failed" =>
          Fatal \/ weakDropped \/ \E a \in DOMAIN providers : WeakKey(providers[a])

\* find_valid_certificate makes a resolver ready exactly when the last response
\* had a valid certificate, and with the best one: no other valid one has a
\* greater version and serial number, and none that comes later equal ones.
BestIsUsed ==
    \A a \in DOMAIN providers :
        LET p == providers[a]
            good == {i \in DOMAIN p.seen.certs : IsValid(p.seen.certs[i], p.key)}
        IN  (up = "running" /\ p.seen.asked) =>
                /\ p.ready <=> good # {}
                /\ p.ready => \E i \in good :
                        /\ p.cert = p.seen.certs[i]
                        /\ \A j \in good :
                            LET c == p.seen.certs[j]
                            IN  \/ c.major < p.cert.major
                                \/ c.major = p.cert.major /\ c.minor < p.cert.minor
                                \/ /\ c.major = p.cert.major /\ c.minor = p.cert.minor
                                   /\ c.serial < p.cert.serial \/ (c.serial = p.cert.serial /\ j <= i)

\* A line of which the end is missing, from the middle of a word perhaps.
Parts(line) ==
    LET begins == {SubSeq(line, 1, k) : k \in 0 .. Len(line) - 1}
    IN  begins \cup {Append(b, "cut") : b \in begins}

\* A text that ends in one of its lines.
CutsOf(lines) ==
    UNION {{Text(Append(SubSeq(lines, 1, n - 1), part)) : part \in Parts(lines[n])} :
              n \in 1 .. Len(lines)}

\* The text of a key has one length: a part of it is not a key.
ASSUME CutAssumption == "cut" \notin KeyTexts

\* What save_providers writes, parse_resolvers_list reads as the ready
\* resolvers with their names and keys, although nothing is quoted; and if the
\* process dies while it writes, as the first of them or not at all.
SavedReadsBack ==
    LET file == save_providers
        rows == parse_resolvers_list(file)
    IN  /\ ~rows.threw
        /\ Len(rows.value) = Cardinality(Ready)
        /\ ToSet(rows.value) = {[address |-> a, name |-> providers[a].name,
                                 key |-> providers[a].key] : a \in Ready}
        /\ \A cut \in CutsOf(file.lines) :
                LET part == parse_resolvers_list(cut)
                IN  part.threw \/ IsPrefix(part.value, rows.value)

=============================================================================
