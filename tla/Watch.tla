--------------------------------- MODULE Watch ---------------------------------
(***************************************************************************)
(* WATCH: a client gives nicks, and is told when somebody comes or goes     *)
(* under one.  Each client has its list, the nicks a hash table of headers  *)
(* with the clients that watch them; a header without one is freed.         *)
(***************************************************************************)
EXTENDS Naturals, FiniteSets

CONSTANTS
    Nickname, Watcher, MyClients,   \* nicks; clients, those of this server among them
    NoName,                      \* no nick
    MAXWATCH,
    MaxWatchOps                \* bound

ASSUME WatchAssumption ==
    NoName \notin Nickname /\ MyClients \subseteq Watcher /\ MAXWATCH \in Nat

VARIABLES
    name,       \* name[c]: its entry in the client hash table
    IsPerson,   \* IsPerson[c]
    watch,      \* watch[c]: the headers in c's list
    watchTable, \* watchTable[n]: the watchers in the header of n
    headers,    \* the nicks that have a header
    told,       \* told[c][n]: the last thing c was told of n: somebody is on
    watchops

wvars == <<name, IsPerson, watch, watchTable, headers, told, watchops>>

Online(n) == \E c \in Watcher : IsPerson[c] /\ name[c] = n
Free(n) == \A c \in Watcher : name[c] # n

WInit ==
    /\ name = [c \in Watcher |-> NoName] /\ IsPerson = [c \in Watcher |-> FALSE]
    /\ watch = [c \in Watcher |-> {}] /\ watchTable = [n \in Nickname |-> {}]
    /\ headers = {} /\ told = [c \in Watcher |-> [n \in Nickname |-> FALSE]]
    /\ watchops = 0

Counted == watchops < MaxWatchOps /\ watchops' = watchops + 1

(* hash_check_watch: LOGOFF of the nicks off, then LOGON of the nicks on.   *)
Tell(table, off, on) ==
    [c \in Watcher |-> [n \in Nickname |->
        IF c \notin table[n] THEN told[c][n]
        ELSE n \in on \/ (n \notin off /\ told[c][n])]]

(* hash_del_watch_list                                                      *)
Unwatched(c) == {n \in headers : watchTable[n] # {c}}
hash_del_watch_list(c) ==
    /\ watch' = [watch EXCEPT ![c] = {}]
    /\ watchTable' = [n \in Nickname |-> watchTable[n] \ {c}]
    /\ headers' = Unwatched(c)

-----------------------------------------------------------------------------
(* NICK of a client that has not registered: nobody hears of it.            *)
TakeNick(c, n) ==
    /\ Counted /\ c \in MyClients /\ ~IsPerson[c] /\ Free(n)
    /\ name' = [name EXCEPT ![c] = n]
    /\ UNCHANGED <<IsPerson, watch, watchTable, headers, told>>

(* register_user of a local client that has a nick, or of a remote one.     *)
Enter(c, n) ==
    /\ Counted /\ ~IsPerson[c]
    /\ IF c \in MyClients THEN name[c] = n ELSE Free(n)
    /\ name' = [name EXCEPT ![c] = n] /\ IsPerson' = [IsPerson EXCEPT ![c] = TRUE]
    /\ told' = Tell(watchTable, {}, {n})
    /\ UNCHANGED <<watch, watchTable, headers>>

(* A change of nick, by m_nick, m_svsnick or m_svsguest.                    *)
Rename_Silent(c, n) == Tell(watchTable, {}, {n})

Renamed(c, n) == Tell(watchTable, {name[c]}, {n})
Change(c, n) ==
    /\ Counted /\ IsPerson[c] /\ Free(n)
    /\ name' = [name EXCEPT ![c] = n] /\ told' = Renamed(c, n)
    /\ UNCHANGED <<IsPerson, watch, watchTable, headers>>

(* exit_client, also of whom m_svsnick finds another client in the way of,  *)
(* or m_svsguest finds no nick for.  A person of this server gives up its   *)
(* list before it is announced.                                             *)
ExitOne(c) ==
    /\ Counted /\ name[c] # NoName
    /\ IF c \in MyClients /\ IsPerson[c] THEN hash_del_watch_list(c)
       ELSE UNCHANGED <<watch, watchTable, headers>>
    /\ name' = [name EXCEPT ![c] = NoName] /\ IsPerson' = [IsPerson EXCEPT ![c] = FALSE]
    /\ told' = IF IsPerson[c] THEN Tell(watchTable', {name[c]}, {}) ELSE told

-----------------------------------------------------------------------------
(* m_watch.  show_watch tells at once how things stand.                     *)
add_to_watch_hash_table(c, n) ==
    /\ watchTable' = [watchTable EXCEPT ![n] = @ \cup {c}]
    /\ watch' = [watch EXCEPT ![c] = @ \cup {n}] /\ headers' = headers \cup {n}
show_watch(c, n) == told' = [told EXCEPT ![c][n] = Online(n)]

MayWatch(c) == Cardinality(watch[c]) < MAXWATCH
AddWatch(c, n) ==
    /\ Counted /\ c \in MyClients /\ IsPerson[c] /\ MayWatch(c)
    /\ add_to_watch_hash_table(c, n) /\ show_watch(c, n)
    /\ UNCHANGED <<name, IsPerson>>

del_from_watch_hash_table(c, n) ==
    IF c \notin watchTable[n] THEN UNCHANGED <<watch, watchTable, headers>>
    ELSE /\ watchTable' = [watchTable EXCEPT ![n] = @ \ {c}]
         /\ watch' = [watch EXCEPT ![c] = @ \ {n}]
         /\ headers' = IF watchTable[n] = {c} THEN headers \ {n} ELSE headers
DelWatch(c, n) ==
    /\ Counted /\ c \in MyClients /\ IsPerson[c]
    /\ del_from_watch_hash_table(c, n) /\ show_watch(c, n)
    /\ UNCHANGED <<name, IsPerson>>

ClearWatch(c) ==
    /\ Counted /\ c \in MyClients /\ IsPerson[c]
    /\ hash_del_watch_list(c) /\ UNCHANGED <<name, IsPerson, told>>

WNext == \E c \in Watcher :
    \/ ExitOne(c) \/ ClearWatch(c)
    \/ \E n \in Nickname : \/ TakeNick(c, n) \/ Enter(c, n) \/ Change(c, n)
                       \/ AddWatch(c, n) \/ DelWatch(c, n)

WSpec == WInit /\ [][WNext]_wvars

-----------------------------------------------------------------------------
(* A client's list and the table say the same (add_to_watch_hash_table,     *)
(* del_from_watch_hash_table, hash_del_watch_list).                         *)
SameLists == \A c \in Watcher, n \in Nickname : n \in watch[c] <=> c \in watchTable[n]

(* A header stands as long as somebody needs it, and no longer.             *)
HeadersNeeded == headers = {n \in Nickname : watchTable[n] # {}}

(* Only persons of this server watch anything, and none too much (m_watch,  *)
(* exit_one_client).                                                        *)
ListsOwned == \A c \in Watcher :
    /\ watch[c] # {} => c \in MyClients /\ IsPerson[c]
    /\ Cardinality(watch[c]) <= MAXWATCH

(* What a watcher was last told of a nick is how things are, whichever way  *)
(* the nick was taken or left since (hash_check_watch, m_nick, m_svsnick,   *)
(* register_user, exit_one_client).                                         *)
WatchersInformed == \A c \in Watcher : \A n \in watch[c] : told[c][n] = Online(n)

(* All of this of the lists of WATCH.                                       *)
WatchRight == SameLists /\ HeadersNeeded /\ ListsOwned /\ WatchersInformed
===============================================================================
