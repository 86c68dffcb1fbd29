------------------------------ MODULE Discovery ------------------------------
(***************************************************************************)
(* How a caller finds a server: RegistryCenter behind its HTTP handlers,   *)
(* RegistryClient with its cache in memory, its retries and its file on    *)
(* disk, and the LoadBalancer that picks from the list, for one service.   *)
(*                                                                         *)
(* Threads share a RegistryClient (threads of one program) or have one     *)
(* each (two programs started in the same directory): fileMutex_ belongs   *)
(* to the object, the files to the directory. A crash ends the threads of  *)
(* one client and leaves its files. Addresses are numbers in the order of  *)
(* std::set, and 0 is the empty string.                                    *)
(***************************************************************************)
EXTENDS Integers, Sequences, FiniteSets, Functions

CONSTANTS
  Threads,
  Clients,      \* RegistryClients, each with the LoadBalancer of its channel
  Uses,         \* the ways in which threads may use clients
  type,         \* type[c]: type_ of c's LoadBalancer
  Addresses,    \* what servers register
  Garbage,      \* a line that two writers made
  NoFile,       \* the file does not exist
  retryTimes,
  Width,        \* index_ has Width bits (32 in the code)
  MaxChanges    \* bound: how often the registry changes or something breaks

Empty == 0
Names == {"tmp", "disk"}   \* service_cache.txt.tmp and service_cache.txt
Types == {"ROUND_ROBIN", "RANDOM"}
Text == Addresses \cup {Empty, Garbage}

ASSUME DiscoveryAssumption ==
  /\ Uses \subseteq [Threads -> Clients]
  /\ type \in [Clients -> Types]
  /\ Addresses \subseteq Nat /\ IsFiniteSet(Addresses)
  /\ Garbage \in Nat \ Addresses
  /\ Empty \notin Addresses \cup {Garbage}
  /\ NoFile \notin Seq(Text)
  /\ retryTimes \in Nat
  /\ Width \in Nat /\ 2 ^ Width \in Nat \ {0}
  /\ MaxChanges \in Nat

VARIABLES
  services,    \* RegistryCenter: the addresses of the service
  reachable,   \* the registry runs and answers in time
  client,      \* client[t]: the RegistryClient t uses
  cache,       \* cache[c]: {} or {the list of an entry that has not expired}
  file,        \* file[n]: the lines of the file called n, or NoFile
  pc, addrs, tries,   \* where each thread is in getAddresses, its list, its failed attempts
  open,        \* open[t]: what the file t writes to is called now
  failed,      \* a write to disk has failed (history)
  index,       \* index[c]: index_ of c's LoadBalancer
  handed,      \* handed[c]: what its round robin has handed out last (history)
  changes,     \* how often something has changed or broken
  answered     \* the lists the registry has answered (history)

vars == <<services, reachable, client, cache, file, pc, addrs, tries, open, failed,
          index, handed, changes, answered>>

\* Nothing was handed out, from no list.
NobodyHanded == [from |-> <<>>, to |-> <<>>]

Init ==
  /\ services \in SUBSET Addresses
  /\ reachable = TRUE
  /\ client \in Uses
  /\ cache = [c \in Clients |-> {}]
  /\ file = [n \in Names |-> NoFile]
  /\ pc = [t \in Threads |-> "idle"]
  /\ addrs = [t \in Threads |-> <<>>]
  /\ tries = [t \in Threads |-> 0]
  /\ open = [t \in Threads |-> "nothing"]
  /\ failed = FALSE
  /\ index = [c \in Clients |-> 0]
  /\ handed = [c \in Clients |-> NobodyHanded]
  /\ changes = 0
  /\ answered = {}

\* One more change, within the bound.
Change == changes < MaxChanges /\ changes' = changes + 1

Goto(t, step) == pc' = [pc EXCEPT ![t] = step]
-----------------------------------------------------------------------------
(* The registry.                                                           *)

\* The handler refuses a body without a service and an address.
RegisteredUnchecked(a) == services \cup {a}
Registered(a) == IF a = Empty THEN services ELSE services \cup {a}

Register(a) ==
  /\ Change
  /\ reachable
  /\ services' = Registered(a)
  /\ UNCHANGED <<reachable, client, cache, file, pc, addrs, tries, open, failed,
                 index, handed, answered>>

\* unregisterService; no handler calls it.
Unregister(a) ==
  /\ Change
  /\ reachable
  /\ services' = services \ {a}
  /\ UNCHANGED <<reachable, client, cache, file, pc, addrs, tries, open, failed,
                 index, handed, answered>>

\* The registry crashes, and forgets everything, or the way to it breaks.
GoAway ==
  /\ Change
  /\ reachable
  /\ reachable' = FALSE
  /\ services' \in {services, {}}
  /\ UNCHANGED <<client, cache, file, pc, addrs, tries, open, failed,
                 index, handed, answered>>

ComeBack ==
  /\ ~reachable
  /\ reachable' = TRUE
  /\ UNCHANGED <<services, client, cache, file, pc, addrs, tries, open, failed,
                 index, handed, changes, answered>>

\* The array of the /discover handler: std::set goes through its elements in order.
Ascending(S) ==
  CHOOSE list \in [1 .. Cardinality(S) -> S] :
    \A i, j \in 1 .. Cardinality(S) : i < j => list[i] < list[j]
Listed == Ascending(services)
-----------------------------------------------------------------------------
(* RegistryClient::getAddresses.                                           *)

\* An entry that is not older than cacheExpire_ answers at once.
CheckCache(t) ==
  LET c == client[t]
  IN /\ pc[t] = "idle"
     /\ IF cache[c] # {}
        THEN /\ addrs' = [addrs EXCEPT ![t] = CHOOSE list \in cache[c] : TRUE]
             /\ Goto(t, "select")
        ELSE /\ Goto(t, "fetch")
             /\ UNCHANGED addrs
     /\ UNCHANGED <<services, reachable, client, cache, file, tries, open, failed,
                    index, handed, changes, answered>>

\* cacheExpire_ has gone by.
NeverExpires(c) == FALSE
Expire(c) ==
  /\ cache[c] # {}
  /\ cache' = [cache EXCEPT ![c] = {}]
  /\ UNCHANGED <<services, reachable, client, file, pc, addrs, tries, open, failed,
                 index, handed, changes, answered>>

\* fetchFromRegistry: an answer, empty or not, ends the attempts.
Fetch(t) ==
  /\ pc[t] = "fetch"
  /\ reachable
  /\ addrs' = [addrs EXCEPT ![t] = Listed]
  /\ answered' = answered \cup {Listed}
  /\ tries' = [tries EXCEPT ![t] = 0]
  /\ Goto(t, IF Listed = <<>> THEN "load" ELSE "save")
  /\ UNCHANGED <<services, reachable, client, cache, file, open, failed,
                 index, handed, changes>>

\* An attempt without an answer.
NotCounted(n) == n
Counted(n) == n + 1
FetchFails(t) ==
  /\ pc[t] = "fetch"
  /\ ~reachable
  /\ IF tries[t] = retryTimes
     THEN Goto(t, "load") /\ tries' = [tries EXCEPT ![t] = 0]
     ELSE tries' = [tries EXCEPT ![t] = Counted(tries[t])] /\ UNCHANGED pc
  /\ UNCHANGED <<services, reachable, client, cache, file, addrs, open, failed,
                 index, handed, changes, answered>>

\* Another thread is in saveToDisk of the same client and holds its fileMutex_.
NeverLocked(t) == FALSE
Locked(t) == \E u \in Threads \ {t} : client[u] = client[t] /\ pc[u] \in {"write", "rename"}

\* saveToDisk: opening the temporary file empties it.
OpenTmp(t) ==
  /\ pc[t] = "save"
  /\ ~Locked(t)
  /\ file' = [file EXCEPT !["tmp"] = <<>>]
  /\ open' = [open EXCEPT ![t] = "tmp"]
  /\ Goto(t, "write")
  /\ UNCHANGED <<services, reachable, client, cache, addrs, tries, failed,
                 index, handed, changes, answered>>

CannotOpen(t) ==
  /\ pc[t] = "save"
  /\ ~Locked(t)
  /\ Change
  /\ Goto(t, "store")
  /\ UNCHANGED <<services, reachable, client, cache, file, addrs, tries, open, failed,
                 index, handed, answered>>

\* The lines of a file after writing at its start.
Written(old, lines) == IF old \in {<<>>, lines} THEN lines ELSE <<Garbage>>

\* The lines go to the file that was opened, whatever it is called by now.
Put(t, lines) ==
  /\ pc[t] = "write"
  /\ file' = IF open[t] \in Names
             THEN [file EXCEPT ![open[t]] = Written(@, lines)] ELSE file
  /\ open' = [open EXCEPT ![t] = "nothing"]
  /\ Goto(t, "rename")
  /\ UNCHANGED <<services, reachable, client, cache, addrs, tries, index, handed, answered>>

Write(t) ==
  /\ Put(t, addrs[t])
  /\ UNCHANGED <<failed, changes>>

\* A write that fails leaves some of the lines, and nobody notices.
WriteFails(t) ==
  /\ Change
  /\ \E n \in 0 .. Len(addrs[t]) - 1 : Put(t, SubSeq(addrs[t], 1, n))
  /\ failed' = TRUE

\* What a file is called after a rename.
Renamed(name) == CASE name = "tmp" -> "disk" [] name = "disk" -> "nothing" [] OTHER -> name

\* rename, which fails when somebody else has moved the file.
Rename(t) ==
  /\ pc[t] = "rename"
  /\ IF file["tmp"] # NoFile
     THEN /\ file' = [tmp |-> NoFile, disk |-> file["tmp"]]
          /\ open' = [u \in Threads |-> Renamed(open[u])]
     ELSE UNCHANGED <<file, open>>
  /\ Goto(t, "store")
  /\ UNCHANGED <<services, reachable, client, cache, addrs, tries, failed,
                 index, handed, changes, answered>>

\* loadFromDisk, line by line: those that are not empty.
NonEmpty(lines) ==
  LET kept[n \in 0 .. Len(lines)] ==
        IF n = 0 THEN <<>>
        ELSE IF lines[n] = Empty THEN kept[n - 1] ELSE Append(kept[n - 1], lines[n])
  IN kept[Len(lines)]
Loaded == IF file["disk"] = NoFile THEN <<>> ELSE NonEmpty(file["disk"])

LoadFromDisk(t) ==
  /\ pc[t] = "load"
  /\ ~Locked(t)
  /\ addrs' = [addrs EXCEPT ![t] = Loaded]
  /\ Goto(t, "store")
  /\ UNCHANGED <<services, reachable, client, cache, file, tries, open, failed,
                 index, handed, changes, answered>>

\* cache_[service], with the time.
Store(t) ==
  /\ pc[t] = "store"
  /\ cache' = [cache EXCEPT ![client[t]] = {addrs[t]}]
  /\ Goto(t, "select")
  /\ UNCHANGED <<services, reachable, client, file, addrs, tries, open, failed,
                 index, handed, changes, answered>>
-----------------------------------------------------------------------------
(* LoadBalancer::select.                                                   *)

\* fetch_add on index_, and the place in a list of n that it gives.
NotAdvanced(i) == i
Advance(i) == (i + 1) % 2 ^ Width
Turn(i, n) == i % n

\* What select may return to t: "" for the empty list, else an address of the list.
Selected(t) ==
  CASE addrs[t] = <<>> -> {Empty}
    [] addrs[t] # <<>> /\ type[client[t]] = "ROUND_ROBIN" ->
         {addrs[t][Turn(index[client[t]], Len(addrs[t])) + 1]}
    [] addrs[t] # <<>> /\ type[client[t]] = "RANDOM" -> Range(addrs[t])

\* The last addresses handed out in a row from this list, no more than it is long.
HandedOut(c, list, a) ==
  LET row == Append(IF handed[c].from = list THEN handed[c].to ELSE <<>>, a)
  IN [from |-> list, to |-> IF Len(row) > Len(list) THEN Tail(row) ELSE row]

\* Only the round robin keeps account.
Select(t) ==
  LET c == client[t]
  IN /\ pc[t] = "select"
     /\ \E a \in Selected(t) :
          IF addrs[t] # <<>> /\ type[c] = "ROUND_ROBIN"
          THEN /\ index' = [index EXCEPT ![c] = Advance(@)]
               /\ handed' = [handed EXCEPT ![c] = HandedOut(c, addrs[t], a)]
          ELSE UNCHANGED <<index, handed>>
     /\ addrs' = [addrs EXCEPT ![t] = <<>>]
     /\ Goto(t, "idle")
     /\ UNCHANGED <<services, reachable, client, cache, file, tries, open, failed,
                    changes, answered>>
-----------------------------------------------------------------------------
\* The program with client c dies; the files stay as they are.
Crash(c) ==
  LET mine == {t \in Threads : client[t] = c}
  IN /\ mine # {}
     /\ Change
     /\ cache' = [cache EXCEPT ![c] = {}]
     /\ index' = [index EXCEPT ![c] = 0]
     /\ handed' = [handed EXCEPT ![c] = NobodyHanded]
     /\ pc' = [t \in Threads |-> IF t \in mine THEN "idle" ELSE pc[t]]
     /\ addrs' = [t \in Threads |-> IF t \in mine THEN <<>> ELSE addrs[t]]
     /\ tries' = [t \in Threads |-> IF t \in mine THEN 0 ELSE tries[t]]
     /\ open' = [t \in Threads |-> IF t \in mine THEN "nothing" ELSE open[t]]
     /\ UNCHANGED <<services, reachable, client, file, failed, answered>>

\* The steps of a lookup that has begun.
Step(t) ==
  \/ Fetch(t) \/ FetchFails(t) \/ OpenTmp(t) \/ CannotOpen(t)
  \/ Write(t) \/ WriteFails(t) \/ Rename(t)
  \/ LoadFromDisk(t) \/ Store(t) \/ Select(t)

Next ==
  \/ \E a \in Addresses \cup {Empty} : Register(a)
  \/ \E a \in Addresses : Unregister(a)
  \/ GoAway \/ ComeBack
  \/ \E t \in Threads : CheckCache(t) \/ Step(t)
  \/ \E c \in Clients : Expire(c) \/ Crash(c)

Spec == Init /\ [][Next]_vars

\* The threads run and time goes by. A mutex that comes free again and again is had.
FairSpec ==
  /\ Spec
  /\ \A t \in Threads : SF_vars(Step(t))
  /\ \A c \in Clients : WF_vars(Expire(c))
-----------------------------------------------------------------------------
(* Properties.                                                             *)

\* The threads share one client and no write has failed: what saveToDisk is written for.
OneWriter == ~failed /\ \A t, u \in Threads : client[t] = client[u]

\* The file on disk is a list the registry has answered, whole, whatever threads save at
\* once and wherever the program dies in saveToDisk.
DiskIsWhole == OneWriter => file["disk"] \in answered \cup {NoFile}

\* The list a caller gets, from the registry, from the cache or from the disk, is empty
\* or one the registry has answered, and select returns an address of it.
CallerGetsRegistered ==
  OneWriter =>
    \A t \in Threads : pc[t] = "select" =>
      \/ addrs[t] = <<>> /\ Selected(t) = {Empty}
      \/ addrs[t] \in answered /\ Selected(t) \subseteq Range(addrs[t])

\* As many selections in a row as a list is long, by whatever threads, have handed out each
\* of its addresses, unless index_ wrapped among them and the length does not divide its
\* range.
RoundRobinTurns ==
  \A c \in Clients :
    LET n == Len(handed[c].from)
        wrapped == index[c] \in 1 .. n - 1
    IN n \in 1 .. 2 ^ Width /\ Len(handed[c].to) = n /\ (wrapped => 2 ^ Width % n = 0)
         => Range(handed[c].to) = Range(handed[c].from)

\* getAddresses returns: the attempts are counted and nobody waits for a lock for ever.
LookupEnds == \A t \in Threads : pc[t] # "idle" ~> pc[t] = "idle"

\* Once the registry stays reachable and its list does not change, no client keeps
\* another list: not one fetched earlier and stored later, not one from the disk, and
\* not the empty one stored while the registry was away.
StaleListIsReplaced ==
  <>[](reachable /\ services # {}) /\ <>[][FALSE]_services =>
    <>[](\A c \in Clients : cache[c] \subseteq {Listed})
=============================================================================
