---------------------------- MODULE OrderRegistry ----------------------------
(***************************************************************************)
(* What creating orders promises to clients, whatever ids, races and       *)
(* retries stand behind it: a book that only grows, with at most one entry *)
(* for each id and for each key, and answers that name an entry the client *)
(* is entitled to and never change.                                        *)
(***************************************************************************)
CONSTANTS
  Clients,
  Key,     \* the key each client sends
  NoKey,
  NoId

VARIABLES book, answer

Init ==
  /\ book = {}
  /\ answer = [c \in Clients |-> NoId]

Clash(c, entry) == entry.key # NoKey /\ entry.key = Key[c]

Register(c, id) ==
  /\ \A entry \in book : entry.id # id /\ ~Clash(c, entry)
  /\ book' = book \cup {[id |-> id, key |-> Key[c], by |-> c]}
  /\ UNCHANGED answer

(* Without a key, a client is entitled to its own entries only. *)
EntitledTo(c, entry) ==
  /\ entry.key = Key[c]
  /\ entry.key = NoKey => entry.by = c

Answer(c, entry) ==
  /\ answer[c] = NoId
  /\ EntitledTo(c, entry)
  /\ answer' = [answer EXCEPT ![c] = entry.id]
  /\ UNCHANGED book

Next ==
  \E c \in Clients :
    \/ \E entry \in book' : Register(c, entry.id)
    \/ \E entry \in book : Answer(c, entry)

Spec == Init /\ [][Next]_<<book, answer>>
=============================================================================
