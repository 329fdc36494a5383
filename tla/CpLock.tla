------------------------------- MODULE CpLock -------------------------------
(***************************************************************************)
(* cpLock (lock.hpp, the same in the three labs): the semaphores empty,    *)
(* full and mutex around a queue.  A producer calls pGet, pushes and calls *)
(* pRelease; a consumer calls cGet, takes the front and calls cRelease.    *)
(* Every sem_wait and sem_post is a step of its own, so is the access to   *)
(* the queue.                                                              *)
(*                                                                         *)
(* The place of a thread names what it has done last: a producer is "out", *)
(* has "waited" for empty, is "in" (it holds the mutex), has "used" the    *)
(* queue, has "left" (it has posted the mutex).  The same for a consumer   *)
(* with full.                                                              *)
(***************************************************************************)
EXTENDS Naturals, Sequences, FiniteSets

CONSTANTS Producers, Consumers, \* the threads
          Capacity,             \* len
          Values                \* what is pushed

ASSUME CpLockAssumption ==
  /\ IsFiniteSet(Producers) /\ IsFiniteSet(Consumers)
  /\ Producers \cap Consumers = {}
  /\ Capacity \in Nat \ {0}

VARIABLES empty, full, mutex, \* the values of the semaphores
          queue,              \* the std::queue the lock protects
          pc

vars == <<empty, full, mutex, queue, pc>>

Threads == Producers \cup Consumers
Places  == {"out", "waited", "in", "used", "left"}

\* Types; the mutex is binary, as it starts at one and is posted by who has waited for it.
TypeOK ==
  /\ empty \in Nat /\ full \in Nat /\ mutex \in 0..1
  /\ queue \in Seq(Values)
  /\ pc \in [Threads -> Places]

\* The constructor.
Init ==
  /\ empty = Capacity /\ full = 0 /\ mutex = 1
  /\ queue = <<>>
  /\ pc = [t \in Threads |-> "out"]

-----------------------------------------------------------------------------
Goes(t, from, to) == pc[t] = from /\ pc' = [pc EXCEPT ![t] = to]

\* Mutants: a producer does not wait for a free place; a consumer looks at full but takes
\* no token.
pGetAtOnce(t) == Goes(t, "out", "waited") /\ UNCHANGED <<empty, full, mutex, queue>>

cGetAtOnce(t) == Goes(t, "out", "waited") /\ full > 0 /\ UNCHANGED <<empty, full, mutex, queue>>

\* pGet and cGet begin with a wait for a token, empty or full.
pGet(t) == Goes(t, "out", "waited") /\ empty > 0 /\ empty' = empty - 1
           /\ UNCHANGED <<full, mutex, queue>>

cGet(t) == Goes(t, "out", "waited") /\ full > 0 /\ full' = full - 1
           /\ UNCHANGED <<empty, mutex, queue>>

\* They end with the wait for the mutex.
Enter(t) == Goes(t, "waited", "in") /\ mutex > 0 /\ mutex' = mutex - 1
            /\ UNCHANGED <<empty, full, queue>>

Push(t, v) == Goes(t, "in", "used") /\ queue' = Append(queue, v)
              /\ UNCHANGED <<empty, full, mutex>>

\* front() and pop() of an empty queue are undefined: see PopDefined.
Pop(t) == Goes(t, "in", "used") /\ queue # <<>> /\ queue' = Tail(queue)
          /\ UNCHANGED <<empty, full, mutex>>

\* Mutant: the mutex is kept.
LeaveLocked(t) == Goes(t, "used", "left") /\ UNCHANGED <<empty, full, mutex, queue>>

\* pRelease and cRelease post the mutex first, and then a token.
Leave(t) == Goes(t, "used", "left") /\ mutex' = mutex + 1
            /\ UNCHANGED <<empty, full, queue>>

pRelease(t) == Goes(t, "left", "out") /\ full' = full + 1
               /\ UNCHANGED <<empty, mutex, queue>>

cRelease(t) == Goes(t, "left", "out") /\ empty' = empty + 1
               /\ UNCHANGED <<full, mutex, queue>>

Producer(t) ==
  \/ pGet(t) \/ Enter(t) \/ Leave(t) \/ pRelease(t)
  \/ \E v \in Values : Push(t, v)

Consumer(t) == cGet(t) \/ Enter(t) \/ Pop(t) \/ Leave(t) \/ cRelease(t)

Next == (\E t \in Producers : Producer(t)) \/ (\E t \in Consumers : Consumer(t))

\* Consumers come back for ever, as every loop that calls cGet does; a producer that
\* has begun goes on.
Fairness ==
  /\ \A t \in Consumers : WF_vars(Consumer(t))
  /\ \A t \in Producers : WF_vars(Producer(t) /\ pc[t] # "out")

Spec == Init /\ [][Next]_vars /\ Fairness

-----------------------------------------------------------------------------
At(S, P) == Cardinality({t \in S : pc[t] \in P})

\* One thread at a time uses the queue (lock.hpp: the mutex that both gets wait for).
MutualExclusion ==
  \A s, t \in Threads : pc[s] \in {"in", "used"} /\ pc[t] \in {"in", "used"} => s = t

\* Whoever is about to take finds something, whatever the others do between its two
\* waits (front() and pop() at fileManager.cpp, solverManager.cpp, coordinator.cc).
PopDefined == \A t \in Consumers : pc[t] = "in" => queue # <<>>

\* Every free place is a token of empty or is held by a producer on its way in or a
\* consumer on its way out; every value, a token of full or held the other way round.
Tokens ==
  /\ mutex + At(Threads, {"in", "used"}) = 1
  /\ empty + Len(queue) + At(Producers, {"waited", "in"}) + At(Consumers, {"used", "left"})
       = Capacity
  /\ Len(queue) = full + At(Producers, {"used", "left"}) + At(Consumers, {"waited", "in"})

\* The users see a bounded buffer, and what is in it is taken.
Buffer == INSTANCE BoundedBuffer WITH buf <- queue
ImplementsBuffer == Buffer!BufSpec
=============================================================================
