------------------------------- MODULE MCDMap -------------------------------
(* Deployments of one owner with up to two backups and a previous owner.    *)
EXTENDS DMapScan

CONSTANTS k1, k2, o, b, c, p

put == [do |-> "put", cond |-> "none", ttl |-> FALSE]
putTTL == [put EXCEPT !.ttl = TRUE]
putNX == [put EXCEPT !.cond = "nx"]
putXX == [put EXCEPT !.cond = "xx"]
expire == [put EXCEPT !.do = "expire", !.ttl = TRUE]
delete == [put EXCEPT !.do = "delete"]
get == [put EXCEPT !.do = "get"]

(* One backup, synchronous, every copy in the quorum, nothing else going on. *)
Plain == [backups |-> <<b>>, prevs |-> <<>>, sync |-> TRUE, wq |-> 2, rq |-> 1,
          limit |-> 0, repair |-> FALSE, ttl |-> FALSE, evict |-> FALSE,
          janitor |-> FALSE, move |-> FALSE, push |-> FALSE, crash |-> FALSE,
          redirect |-> FALSE, scan |-> FALSE, held |-> {}, keys |-> {k1}, asks |-> {put}, ops |-> 3]

Writes == [Plain EXCEPT !.janitor = TRUE, !.evict = TRUE, !.asks = {putTTL, putNX, delete}]
Expires == [Plain EXCEPT !.evict = TRUE, !.asks = {putTTL, expire, delete}]
Crashes == [Plain EXCEPT !.backups = <<b, c>>, !.crash = TRUE, !.asks = {put, delete}, !.ops = 2]
Async == [Plain EXCEPT !.sync = FALSE, !.redirect = TRUE, !.asks = {put, putXX, delete, get}]
Moved == [Plain EXCEPT !.prevs = <<p>>, !.move = TRUE, !.asks = {put, delete, get}, !.ops = 2,
                       !.held = {<<p, "primary">>, <<b, "backup">>}]
Cache == [Plain EXCEPT !.backups = <<>>, !.limit = 1, !.keys = {k1, k2}, !.wq = 1,
                       !.asks = {put, expire}]
SyncCache == [Plain EXCEPT !.limit = 1, !.keys = {k1, k2}]
Repaired == [Plain EXCEPT !.repair = TRUE, !.asks = {put, get},
                          !.held = {<<b, "backup">>}]
Pushed == [Plain EXCEPT !.push = TRUE, !.asks = {put, delete}]

Split == [Plain EXCEPT !.prevs = <<p>>, !.asks = {putNX, delete, get},
                       !.held = {<<p, "primary">>}]

Scanned == [Plain EXCEPT !.prevs = <<p>>, !.move = TRUE, !.scan = TRUE, !.ops = 0,
                         !.held = {<<p, "primary">>}]
ScannedDying == [Scanned EXCEPT !.crash = TRUE, !.move = FALSE,
                                !.held = {<<o, "primary">>}]

All == {Writes, Expires, Crashes, Async, Moved, Split, Cache, SyncCache, Repaired, Pushed,
        Scanned, ScannedDying}

(* A member that is not the owner takes requests, too.                       *)
Redirecting == {[Cache EXCEPT !.limit = 0, !.keys = {k1}, !.redirect = TRUE]}
=============================================================================

