--------------------------- MODULE RecoveryUpdater ---------------------------
(***************************************************************************)
(* recovery/recovery_updater.cpp: xiaomi.verify_trustzone, which an update *)
(* script calls to find out whether the firmware of the phone is one of    *)
(* those it asks for.  get_info maps the boot loader partition, searches   *)
(* it with bm_search (the module BoyerMoore: str is the partition, pat is  *)
(* TZ_VER_STR) and copies the version that follows; every call that can    *)
(* fail may fail.                                                          *)
(***************************************************************************)
EXTENDS BoyerMoore

CONSTANTS
  Nul,        \* the character that ends a string of C
  BufLen,     \* the size of the buffer for the version (TZ_VER_BUF_LEN)
  Versions    \* inputs: the versions a script may ask for

ASSUME NulAssumption == Nul \in Char
ASSUME BufAssumption == BufLen \in Nat \ {0}

VARIABLES
  pc,         \* the call of verify_trustzone that comes next
  held,       \* the descriptor fd and the mapping data, as far as there are any
  ret,        \* what get_info returns: 0, a positive or a negative error
  version,    \* current_tz_version, empty until it is written
  args,       \* the versions asked for
  answer      \* what the script is told

caller == <<pc, held, ret, version, args, answer>>
updaterVars == <<vars, caller>>

(* Strings of C, by the characters before the NUL.                         *)
TextOf(n) == [0..(n - 1) -> Char \ {Nul}]
Size(s) == Cardinality(DOMAIN s)

(* What snprintf may leave in the buffer, with the NUL behind it; a fault: *)
(* the NUL is forgotten.                                                   *)
ContentsWithoutNul == UNION {TextOf(n) : n \in 0..BufLen}
Contents == UNION {TextOf(n) : n \in 0..(BufLen - 1)}

ASSUME VersionAssumption ==
  \A v \in Versions : IsFiniteSet(DOMAIN v) /\ v \in TextOf(Size(v))

UpdaterTypeOK ==
  /\ TypeOK
  /\ pc \in {"open", "lseek64", "mmap", "bm_search", "snprintf", "munmap", "close",
             "ReadArgs", "strncmp", "done", "died"}
  /\ held \subseteq {"fd", "data"}
  /\ ret \in {0, 1, -1}
  /\ Size(version) \in 0..(BufLen - 1) /\ version \in TextOf(Size(version))
  /\ args \subseteq Versions
  /\ answer \in {"none", "1", "0", "kFreadFailure", "kArgsParsingFailure"}

UpdaterInit ==
  /\ Init
  /\ \A k \in 0..(pat_len - 1) : pat[k] # Nul
  /\ pc = "open" /\ held = {} /\ ret = 0
  /\ version \in TextOf(0) /\ args = {} /\ answer = "none"

Goto(next) == pc' = next
At(here, next) == pc = here /\ Goto(next)

(* An error of open, lseek64 or mmap is returned, from the label next on.  *)
Fails(here, next) ==
  /\ At(here, next)
  /\ ret' = 1
  /\ UNCHANGED <<vars, held, version, args, answer>>

Open ==
  \/ /\ At("open", "lseek64")
     /\ held' = held \cup {"fd"}
     /\ UNCHANGED <<vars, ret, version, args, answer>>
  \/ Fails("open", "ReadArgs")

(* A fault: an error goes to err_ret.                                      *)
SeekReturns ==
  \/ At("lseek64", "mmap") /\ UNCHANGED <<vars, held, ret, version, args, answer>>
  \/ Fails("lseek64", "ReadArgs")

Seek ==
  \/ At("lseek64", "mmap") /\ UNCHANGED <<vars, held, ret, version, args, answer>>
  \/ Fails("lseek64", "close")

(* A fault: a mapping that fails is tried again.                           *)
MapRetries ==
  \/ /\ At("mmap", "bm_search") /\ str_len > 0
     /\ held' = held \cup {"data"}
     /\ UNCHANGED <<vars, ret, version, args, answer>>
  \/ Fails("mmap", "lseek64")

(* Nothing of length 0 can be mapped.                                      *)
Map ==
  \/ /\ At("mmap", "bm_search") /\ str_len > 0
     /\ held' = held \cup {"data"}
     /\ UNCHANGED <<vars, ret, version, args, answer>>
  \/ Fails("mmap", "close")

(* A step of bm_search, and its return.                                    *)
SearchGoesOn ==
  /\ pc = "bm_search" /\ Next
  /\ UNCHANGED caller

SearchReturns ==
  /\ result # Searching
  /\ \/ /\ result # NotFound /\ At("bm_search", "snprintf")
        /\ UNCHANGED ret
     \/ /\ result = NotFound /\ At("bm_search", "munmap")
        /\ ret' = -1
  /\ UNCHANGED <<vars, held, version, args, answer>>

(* A NUL follows the version, which begins behind the pattern.             *)
Ended(n) == \E k \in n..(str_len - 1) : str[k] = Nul

(* s is what snprintf makes of the text at n: it stops before a NUL and at *)
(* the end of the buffer.                                                  *)
CopyOf(s, n) ==
  /\ \A k \in DOMAIN s : n + k < str_len => s[k] = str[n + k]
  /\ Size(s) < BufLen - 1 /\ n + Size(s) < str_len => str[n + Size(s)] = Nul

(* Without a NUL snprintf reads on behind the mapping: the process dies,   *)
(* or it finds some text there.                                            *)
Copy ==
  /\ \/ /\ At("snprintf", "munmap")
        /\ \E s \in Contents : CopyOf(s, result + pat_len) /\ version' = s
     \/ /\ At("snprintf", "died") /\ ~Ended(result + pat_len)
        /\ UNCHANGED version
  /\ UNCHANGED <<vars, held, ret, args, answer>>

Unmap ==
  /\ At("munmap", "close")
  /\ held' = held \ {"data"}
  /\ UNCHANGED <<vars, ret, version, args, answer>>

Close ==
  /\ At("close", "ReadArgs")
  /\ held' = held \ {"fd"}
  /\ UNCHANGED <<vars, ret, version, args, answer>>

(* VerifyTrustZoneFn gives up, or reads its arguments.                     *)
ReadArgs ==
  /\ \/ /\ ret # 0 /\ At("ReadArgs", "done")
        /\ answer' = "kFreadFailure" /\ UNCHANGED args
     \/ /\ ret = 0 /\ At("ReadArgs", "strncmp")
        /\ args' \in SUBSET Versions /\ UNCHANGED answer
     \/ /\ ret = 0 /\ At("ReadArgs", "done")
        /\ answer' = "kArgsParsingFailure" /\ UNCHANGED args
  /\ UNCHANGED <<vars, held, ret, version>>

(* strncmp up to the length of v: v, or a text that begins with it.  A     *)
(* fault: up to the length of the current version.                         *)
AcceptsBeginnings(v) == \A k \in DOMAIN v \cap DOMAIN version : version[k] = v[k]
Accepts(v) == \A k \in DOMAIN v : k \in DOMAIN version /\ version[k] = v[k]

Compare ==
  /\ At("strncmp", "done")
  /\ answer' = IF \E v \in args : Accepts(v) THEN "1" ELSE "0"
  /\ UNCHANGED <<vars, held, ret, version, args>>

UpdaterNext ==
  \/ Open \/ Seek \/ Map \/ SearchGoesOn \/ SearchReturns \/ Copy \/ Unmap \/ Close
  \/ ReadArgs \/ Compare

UpdaterSpec ==
  UpdaterInit /\ [][UpdaterNext]_updaterVars /\ WF_updaterVars(UpdaterNext)

(***************************************************************************)
(* What verify_trustzone promises.                                         *)
(***************************************************************************)
(* Whichever call fails, get_info closes and unmaps the partition before   *)
(* it returns (the labels err_fd_close and err_ret).                       *)
NothingLeaks == pc \in {"ReadArgs", "strncmp", "done"} => held = {}

(* v stands in the partition at n.                                         *)
Reads(v, n) == \A k \in DOMAIN v : n + k < str_len /\ str[n + k] = v[k]

(* The verdict is that of the partition (VerifyTrustZoneFn, get_info and   *)
(* bm_search together): a version is accepted if, and if it fits into the  *)
(* buffer only if, it stands behind the first TZ_VER_STR; an update is     *)
(* turned away for its version only if there is a TZ_VER_STR.  The text    *)
(* behind it has to end inside of the partition.                           *)
VerdictIsRight ==
  answer \in {"0", "1"} /\ Borderless =>
    \E n \in 0..str_len :
      /\ Stands(n) /\ \A m \in 0..(n - 1) : ~Stands(m)
      /\ Ended(n + pat_len) =>
           /\ answer = "1" => \E v \in args : Reads(v, n + pat_len)
           /\ answer = "0" => \A v \in args : Size(v) < BufLen => ~Reads(v, n + pat_len)

(* How many calls are still to come, those of the search included.         *)
CallsBehind ==
  [open |-> 9, lseek64 |-> 8, mmap |-> 7, bm_search |-> 6, snprintf |-> 5,
   munmap |-> 4, close |-> 3, ReadArgs |-> 2, strncmp |-> 1, done |-> 0, died |-> 0]
CallsLeft == CallsBehind[pc] + StepsLeft

(* Whatever fails, and whatever label it jumps to, verify_trustzone gets   *)
(* closer to its end: no path of get_info leads back.                      *)
CallsRunOut == [][CallsLeft' \in Nat /\ CallsLeft' < CallsLeft]_updaterVars

(* verify_trustzone returns, or the process has died.                      *)
Returns == <>(pc \in {"done", "died"})
=============================================================================
