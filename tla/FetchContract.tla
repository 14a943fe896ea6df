--------------------------- MODULE FetchContract ---------------------------
(***************************************************************************)
(* What sbom.Fetcher promises the callers of FetchForImage, without the    *)
(* cache, the singleflight group or the registry protocol.                 *)
(*                                                                         *)
(*  - An answer that is not an error is one the registry has given for     *)
(*    that image: an SBOM, or the fact that there is none.                 *)
(*  - Before an image is settled any waiting call may be told of an error; *)
(*    no successful answer is given.                                       *)
(*  - Once the image is settled, a call that starts is answered at once,   *)
(*    and never with an error.                                             *)
(*  - One answer may release several calls, all of them for one image.     *)
(***************************************************************************)
CONSTANTS Callers, Images, Sboms, NoImage, NoSbom, FetchError, None

VARIABLES
  known,     \* pairs <<image, answer>> the registry has stood for so far
  settled,   \* images whose answer the fetcher remembers
  status,    \* caller -> "idle", "pending" or "answered"
  image,     \* caller -> the image it asked about
  answer     \* caller -> what it was told

vars == <<known, settled, status, image, answer>>

Facts == Sboms \union {NoSbom}

Init ==
  /\ known \subseteq Images \X Facts
  /\ settled = {}
  /\ status = [c \in Callers |-> "idle"]
  /\ image = [c \in Callers |-> NoImage]
  /\ answer = [c \in Callers |-> None]

\* The registry changes under the fetcher's feet: it may stand for more.
Learn ==
  /\ known \subseteq known' /\ known' \subseteq Images \X Facts
  /\ UNCHANGED <<settled, status, image, answer>>

AskNothing(c) ==
  /\ status[c] = "idle"
  /\ status' = [status EXCEPT ![c] = "answered"]
  /\ answer' = [answer EXCEPT ![c] = NoSbom]
  /\ UNCHANGED <<known, settled, image>>

AskSettled(c, i) ==
  /\ status[c] = "idle" /\ i \in settled
  /\ status' = [status EXCEPT ![c] = "answered"]
  /\ image' = [image EXCEPT ![c] = i]
  /\ \E a \in Facts : /\ <<i, a>> \in known
                      /\ answer' = [answer EXCEPT ![c] = a]
  /\ UNCHANGED <<known, settled>>

Ask(c, i) ==
  /\ status[c] = "idle" /\ i \notin settled
  /\ status' = [status EXCEPT ![c] = "pending"]
  /\ image' = [image EXCEPT ![c] = i]
  /\ UNCHANGED <<known, settled, answer>>

Settle(i) ==
  /\ settled' = settled \union {i}
  /\ UNCHANGED <<known, status, image, answer>>

Answer(i, a) ==
  /\ \/ a = FetchError
     \/ i \in settled /\ <<i, a>> \in known
  /\ \E S \in SUBSET {c \in Callers : status[c] = "pending" /\ image[c] = i} :
       /\ S # {}
       /\ status' = [c \in Callers |-> IF c \in S THEN "answered" ELSE status[c]]
       /\ answer' = [c \in Callers |-> IF c \in S THEN a ELSE answer[c]]
  /\ UNCHANGED <<known, settled, image>>

Return(c) ==
  /\ status[c] = "answered"
  /\ status' = [status EXCEPT ![c] = "idle"]
  /\ image' = [image EXCEPT ![c] = NoImage]
  /\ answer' = [answer EXCEPT ![c] = None]
  /\ UNCHANGED <<known, settled>>

Next ==
  \/ Learn
  \/ \E c \in Callers : AskNothing(c) \/ Return(c)
  \/ \E c \in Callers, i \in Images : AskSettled(c, i) \/ Ask(c, i)
  \/ \E i \in Images : Settle(i)
  \/ \E i \in Images, a \in Facts \union {FetchError} : Answer(i, a)

Spec == Init /\ [][Next]_vars
=============================================================================
