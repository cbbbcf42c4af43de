------------------------- MODULE DeploymentTheorems --------------------------
(***************************************************************************)
(* The deployment tasks, for any tasks and flags run in any order, on any  *)
(* networks, with any failures and any transactions of others in between:  *)
(* what they hand over is one wired system, an auction handed over runs,   *)
(* and an undisturbed task does not fail at what it computed itself.       *)
(*                                                                         *)
(* A task computes addresses before the contracts are there.  The lists of *)
(* contracts count those offsets right; what was sent therefore is where   *)
(* its constructors expect it if nobody else sent, or if the addresses the *)
(* task validates came out as computed.                                    *)
(***************************************************************************)
EXTENDS Deployment, SequenceTheorems, TLAPS

-----------------------------------------------------------------------------
(* The lists of contracts.                                                 *)

\* The tasks that deploy a whole system, and those that replace a descriptor.
FullTasks == {"deployAndConfigure", "ci", "shortTimes", "shortTimesDaov1", "cnnouns", "nigi",
              "runLocal"}
DescriptorTasks == {"descriptorV2", "cnnounsDescriptorV2", "nigiDescriptorV2"}

\* Every task is one or the other.
LEMMA TaskNamesAre == DOMAIN Tasks = FullTasks \cup DescriptorTasks
BY DEF Tasks, FullTasks, DescriptorTasks

\* A constructor's argument is an address ahead, or of a contract earlier in the list.
Refers(c, i) ==
  \A role \in DOMAIN c[i].args :
    \/ c[i].args[role].ahead /\ c[i].args[role].offset \in Nat
    \/ ~c[i].args[role].ahead /\ \E j \in 1 .. i - 1 : c[i].args[role].of = c[j].name

\* A list of contracts: no name twice, references backwards only.
IsList(c) ==
  /\ Len(c) \in Nat
  /\ \A i, j \in 1 .. Len(c) : c[i].name = c[j].name => i = j
  /\ \A i \in 1 .. Len(c) :
       /\ c[i].name # "none"
       /\ Refers(c, i)
       /\ c[i].validated \in BOOLEAN
       /\ c[i].validated => c[i].offset = i - 1

\* The descriptor and its art, the art's address computed ahead.
ArtLayout(c, descriptor, art, ahead) ==
  /\ c[descriptor].name = "NounsDescriptorV2" /\ "art" \in DOMAIN c[descriptor].args
  /\ c[descriptor].args.art = At(ahead)
  /\ c[art].name = "NounsArt" /\ "descriptor" \in DOMAIN c[art].args
  /\ c[art].args.descriptor = Of("NounsDescriptorV2")

\* The system of a full deployment, shift contracts into the list, with offsets
\* counted from k contracts before it.
Layout(c, shift, k, governor) ==
  /\ ArtLayout(c, shift + 3, shift + 5, k + 4)
  /\ c[shift + 7].name = "NounsToken" /\ {"minter", "descriptor"} \subseteq DOMAIN c[shift + 7].args
  /\ c[shift + 7].args.minter = At(k + 9) /\ c[shift + 7].args.descriptor = Of("NounsDescriptorV2")
  /\ c[shift + 9].name = "NounsAuctionHouseProxyAdmin"
  /\ c[shift + 10].name = "NounsAuctionHouseProxy"
  /\ {"nouns", "proxyAdmin"} \subseteq DOMAIN c[shift + 10].args
  /\ c[shift + 10].args.nouns = Of("NounsToken")
  /\ c[shift + 10].args.proxyAdmin = Of("NounsAuctionHouseProxyAdmin")
  /\ c[shift + 11].name = "NounsDAOExecutor" /\ "governor" \in DOMAIN c[shift + 11].args
  /\ c[shift + 11].args.governor = At(k + 12)
  /\ c[shift + 13].name = governor /\ {"timelock", "nouns"} \subseteq DOMAIN c[shift + 13].args
  /\ c[shift + 13].args.timelock = Of("NounsDAOExecutor")
  /\ c[shift + 13].args.nouns = Of("NounsToken")

\* The thirteen contracts of a deployment, k contracts into the run: the addresses ahead are
\* those of the art, the house and the governor.
LEMMA ContractsListed ==
  ASSUME NEW k \in 0 .. 1, NEW logicName \in {"NounsDAOLogicV1", "NounsDAOLogicV2"},
         NEW proxyName \in Governors,
         NEW validated \in BOOLEAN, k = 0 \/ validated = FALSE
  PROVE  LET c == Contracts(k + 4, k + 9, k + 12, logicName, proxyName, validated)
         IN  /\ IsList(c) /\ Len(c) = 13 /\ Layout(c, 0, k, proxyName)
             /\ validated => c[10].validated /\ c[13].validated
<1> DEFINE c == Contracts(k + 4, k + 9, k + 12, logicName, proxyName, validated)
<1>1. Len(c) = 13
  BY DEF Contracts
<1>2. \A i, j \in 1 .. 13 : c[i].name = c[j].name => i = j
  BY DEF Contracts, New, Proxy, Governors
<1>3. \A i \in 1 .. 13 : c[i].name # "none"
  BY DEF Contracts, New, Proxy, Governors
<1>4. Layout(c, 0, k, proxyName)
  BY DEF Contracts, New, Proxy, Layout, ArtLayout
<1>5. \A i \in 1 .. 13 :
        c[i].validated \in BOOLEAN /\ (c[i].validated => c[i].offset = i - 1)
  <2>1. \A i \in (1 .. 13) \ {10, 13} : c[i].validated = FALSE
    BY DEF Contracts, New, Proxy
  <2>2. /\ c[10].validated = validated /\ c[10].offset = k + 9
        /\ c[13].validated = validated /\ c[13].offset = k + 12
    BY DEF Contracts, New, Proxy
  <2> SUFFICES ASSUME NEW i \in 1 .. 13
               PROVE  c[i].validated \in BOOLEAN /\ (c[i].validated => c[i].offset = i - 1)
    OBVIOUS
  <2> HIDE DEF c
  <2>3. CASE i \notin {10, 13}
    BY <2>1, <2>3
  <2>4. CASE i = 10
    BY <2>2, <2>4
  <2>5. CASE i = 13
    BY <2>2, <2>5
  <2> QED  BY <2>3, <2>4, <2>5
<1>6. \A i \in 1 .. 13 : Refers(c, i)
  <2>1. /\ c[1].name = "NFTDescriptorV2" /\ c[2].name = "SVGRenderer"
        /\ c[3].name = "NounsDescriptorV2" /\ c[4].name = "Inflator"
        /\ c[6].name = "NounsSeeder" /\ c[7].name = "NounsToken"
        /\ c[8].name = "NounsAuctionHouse" /\ c[9].name = "NounsAuctionHouseProxyAdmin"
        /\ c[11].name = "NounsDAOExecutor" /\ c[12].name = logicName
    BY DEF Contracts, New, Proxy
  <2>2. \A i \in {1, 2, 4, 6, 8, 9, 12} : c[i].args = NoArgs
    BY DEF Contracts, New, Proxy
  <2>3. /\ c[3].args = [art |-> At(k + 4), renderer |-> Of("SVGRenderer"),
                        library |-> Of("NFTDescriptorV2")]
        /\ c[5].args = [descriptor |-> Of("NounsDescriptorV2"), inflator |-> Of("Inflator")]
        /\ c[7].args = [minter |-> At(k + 9), descriptor |-> Of("NounsDescriptorV2"),
                        seeder |-> Of("NounsSeeder")]
        /\ c[10].args = [logic |-> Of("NounsAuctionHouse"), nouns |-> Of("NounsToken"),
                         proxyAdmin |-> Of("NounsAuctionHouseProxyAdmin")]
        /\ c[11].args = [governor |-> At(k + 12)]
        /\ c[13].args = [timelock |-> Of("NounsDAOExecutor"), nouns |-> Of("NounsToken"),
                         logic |-> Of(logicName)]
    BY DEF Contracts, New, Proxy
  <2> HIDE DEF c
  <2>4. \A i \in {1, 2, 4, 6, 8, 9, 12} : Refers(c, i)
    BY <2>2 DEF Refers, NoArgs
  <2>5. \A n : At(n).ahead /\ At(n).offset = n
    BY DEF At
  <2>6. \A name : ~Of(name).ahead /\ Of(name).of = name
    BY DEF Of
  <2>7. Refers(c, 3)
    <3>1. DOMAIN c[3].args = {"art", "renderer", "library"}
      BY <2>3
    <3>2. /\ c[3].args["art"] = At(k + 4)
          /\ c[3].args["renderer"] = Of("SVGRenderer")
          /\ c[3].args["library"] = Of("NFTDescriptorV2")
      BY <2>3
    <3> QED  BY <2>1, <2>5, <2>6, <3>1, <3>2 DEF Refers
  <2>8. Refers(c, 5)
    <3>1. DOMAIN c[5].args = {"descriptor", "inflator"}
      BY <2>3
    <3>2. /\ c[5].args["descriptor"] = Of("NounsDescriptorV2")
          /\ c[5].args["inflator"] = Of("Inflator")
      BY <2>3
    <3> QED  BY <2>1, <2>5, <2>6, <3>1, <3>2 DEF Refers
  <2>9. Refers(c, 7)
    <3>1. DOMAIN c[7].args = {"minter", "descriptor", "seeder"}
      BY <2>3
    <3>2. /\ c[7].args["minter"] = At(k + 9)
          /\ c[7].args["descriptor"] = Of("NounsDescriptorV2")
          /\ c[7].args["seeder"] = Of("NounsSeeder")
      BY <2>3
    <3> QED  BY <2>1, <2>5, <2>6, <3>1, <3>2 DEF Refers
  <2>10. Refers(c, 10)
    <3>1. DOMAIN c[10].args = {"logic", "nouns", "proxyAdmin"}
      BY <2>3
    <3>2. /\ c[10].args["logic"] = Of("NounsAuctionHouse")
          /\ c[10].args["nouns"] = Of("NounsToken")
          /\ c[10].args["proxyAdmin"] = Of("NounsAuctionHouseProxyAdmin")
      BY <2>3
    <3> QED  BY <2>1, <2>5, <2>6, <3>1, <3>2 DEF Refers
  <2>11. Refers(c, 11)
    <3>1. DOMAIN c[11].args = {"governor"}
      BY <2>3
    <3>2. /\ c[11].args["governor"] = At(k + 12)
      BY <2>3
    <3> QED  BY <2>1, <2>5, <2>6, <3>1, <3>2 DEF Refers
  <2>12. Refers(c, 13)
    <3>1. DOMAIN c[13].args = {"timelock", "nouns", "logic"}
      BY <2>3
    <3>2. /\ c[13].args["timelock"] = Of("NounsDAOExecutor")
          /\ c[13].args["nouns"] = Of("NounsToken")
          /\ c[13].args["logic"] = Of(logicName)
      BY <2>3
    <3> QED  BY <2>1, <2>5, <2>6, <3>1, <3>2 DEF Refers
  <2> QED  BY <2>4, <2>7, <2>8, <2>9, <2>10, <2>11, <2>12
<1>7. IsList(c)
  <2> HIDE DEF c
  <2> QED  BY <1>1, <1>2, <1>3, <1>5, <1>6 DEF IsList
<1>8. ASSUME validated
      PROVE  c[10].validated /\ c[13].validated
  <2>1. c[10].validated = validated /\ c[13].validated = validated
    BY DEF Contracts, New, Proxy
  <2> QED  BY ONLY <1>8, <2>1
<1> QED  BY <1>1, <1>4, <1>7, <1>8

\* Where the elements of two sequences are in their concatenation.
IsJoin(r, s, t) ==
  /\ Len(r) = Len(s) + Len(t)
  /\ \A i \in 1 .. Len(s) : r[i] = s[i]
  /\ \A i \in 1 .. Len(t) : r[Len(s) + i] = t[i]

\* Concatenation joins.
LEMMA Joined ==
  ASSUME NEW S, NEW s \in Seq(S), NEW t \in Seq(S)
  PROVE  s \o t \in Seq(S) /\ IsJoin(s \o t, s, t)
<1>1. /\ s \o t \in Seq(S) /\ Len(s \o t) = Len(s) + Len(t)
      /\ \A i \in 1 .. Len(s) + Len(t) : (s \o t)[i] = IF i <= Len(s) THEN s[i] ELSE t[i - Len(s)]
  BY ConcatProperties
<1>2. Len(s) \in Nat /\ Len(t) \in Nat
  OBVIOUS
<1> DEFINE m == Len(s)
           n == Len(t)
<1>3. \A i \in 1 .. m : i \in 1 .. m + n /\ i <= m
  <2> HIDE DEF m, n
  <2> QED  BY <1>2 DEF m, n
<1>4. \A i \in 1 .. n : m + i \in 1 .. m + n /\ ~(m + i <= m) /\ (m + i) - m = i
  BY <1>2
<1> DEFINE r == s \o t
<1>5. Len(r) = m + n /\ \A i \in 1 .. m + n : r[i] = IF i <= m THEN s[i] ELSE t[i - m]
  BY <1>1
<1> HIDE DEF r
<1>6. IsJoin(r, s, t)
  BY <1>3, <1>4, <1>5 DEF IsJoin
<1> QED  BY <1>1, <1>6 DEF r

\* The contracts of the local chain: WETH before the thirteen, Multicall2 after.
LEMMA LocalListed ==
  /\ IsList(local_contracts) /\ Len(local_contracts) = 15
  /\ Layout(local_contracts, 1, 1, "NounsDAOProxyV2")
<1> DEFINE c == Contracts(5, 10, 13, "NounsDAOLogicV2", "NounsDAOProxyV2", FALSE)
           q == local_contracts
<1>1. IsList(c) /\ Len(c) = 13 /\ Layout(c, 0, 1, "NounsDAOProxyV2")
  <2>1. /\ "NounsDAOProxyV2" \in Governors /\ 1 \in 0 .. 1
        /\ 1 + 4 = 5 /\ 1 + 9 = 10 /\ 1 + 12 = 13
    BY DEF Governors
  <2>2. /\ "NounsDAOLogicV2" \in {"NounsDAOLogicV1", "NounsDAOLogicV2"}
        /\ FALSE \in BOOLEAN /\ (1 = 0 \/ FALSE = FALSE)
    OBVIOUS
  <2>3. LET d == Contracts(1 + 4, 1 + 9, 1 + 12, "NounsDAOLogicV2", "NounsDAOProxyV2", FALSE)
        IN  /\ IsList(d) /\ Len(d) = 13 /\ Layout(d, 0, 1, "NounsDAOProxyV2")
            /\ FALSE => d[10].validated /\ d[13].validated
    BY <2>1, <2>2, ContractsListed
  <2> QED  BY <2>1, <2>3
<1>2. /\ Len(q) = 15
      /\ q[1] = New("WETH", NoArgs) /\ q[15] = New("Multicall2", NoArgs)
      /\ \A i \in 1 .. 13 : q[i + 1] = c[i]
  <2>1. Len(q) = 15 /\ q[1] = New("WETH", NoArgs) /\ q[15] = New("Multicall2", NoArgs)
    BY DEF local_contracts, Contracts
  <2> DEFINE S == {c[i] : i \in 1 .. 13} \cup {New("WETH", NoArgs), New("Multicall2", NoArgs)}
  <2>2. c \in Seq(S)
    <3>1. Len(c) = 13 /\ c = [i \in 1 .. 13 |-> c[i]]
      BY DEF Contracts
    <3> HIDE DEF c
    <3>2. c \in [1 .. 13 -> S]
      BY <3>1
    <3>3. 13 \in Nat
      OBVIOUS
    <3> QED  BY <3>2, <3>3, SeqDef
  <2>3. q = <<New("WETH", NoArgs)>> \o c \o <<New("Multicall2", NoArgs)>>
    BY DEF local_contracts
  <2>4. New("WETH", NoArgs) \in S /\ New("Multicall2", NoArgs) \in S
    OBVIOUS
  <2> HIDE DEF c, q, S
  <2> DEFINE w == <<New("WETH", NoArgs)>>
             m == <<New("Multicall2", NoArgs)>>
  <2>5. w \in Seq(S) /\ m \in Seq(S) /\ Len(w) = 1 /\ Len(m) = 1 /\ Len(c) = 13
    BY <1>1, <2>4
  <2>60. q = (w \o c) \o m
    BY <2>3
  <2> HIDE DEF w, m
  <2> DEFINE p == w \o c
  <2>61. p = w \o c /\ q = p \o m
    BY <2>60
  <2> HIDE DEF p
  <2>62. p \in Seq(S) /\ IsJoin(p, w, c)
    <3>1. w \in Seq(S) /\ p = w \o c /\ c \in Seq(S)
      BY <2>2, <2>5, <2>61
    <3> QED  BY ONLY <3>1, Joined, Zenon
  <2>6. IsJoin(q, p, m)
    <3>1. m \in Seq(S) /\ q = p \o m /\ p \in Seq(S)
      BY <2>5, <2>61, <2>62
    <3> QED  BY ONLY <3>1, Joined, Zenon
  <2>7. Len(p) = 14 /\ \A i \in 1 .. 13 : p[1 + i] = c[i]
    BY <2>5, <2>62 DEF IsJoin
  <2>8. \A i \in 1 .. 14 : q[i] = p[i]
    BY <2>6, <2>7 DEF IsJoin
  <2>9. \A i \in 1 .. 13 : i + 1 \in 1 .. 14 /\ i + 1 = 1 + i
    OBVIOUS
  <2>10. \A i \in 1 .. 13 : q[i + 1] = c[i]
    BY <2>7, <2>8, <2>9
  <2> QED  BY <2>1, <2>10
<1>3. \A i \in 1 .. 13 : c[i].validated = FALSE /\ c[i].name \notin {"WETH", "Multicall2"}
  BY DEF Contracts, New, Proxy
<1>4. /\ q[1].name = "WETH" /\ q[15].name = "Multicall2"
      /\ q[1].validated = FALSE /\ q[15].validated = FALSE
      /\ DOMAIN q[1].args = {} /\ DOMAIN q[15].args = {}
  BY <1>2 DEF New, NoArgs
<1> HIDE DEF c, q
<1>5. Layout(q, 1, 1, "NounsDAOProxyV2")
  BY <1>1, <1>2 DEF Layout, ArtLayout
<1>6. \A i \in 1 .. 15 : i = 1 \/ i = 15 \/ (i - 1 \in 1 .. 13 /\ q[i] = c[i - 1])
  <2> SUFFICES ASSUME NEW i \in 1 .. 15, i # 1, i # 15
               PROVE  i - 1 \in 1 .. 13 /\ q[i] = c[i - 1]
    OBVIOUS
  <2>1. i - 1 \in 1 .. 13 /\ (i - 1) + 1 = i
    OBVIOUS
  <2> QED  BY <1>2, <2>1
<1>7. ASSUME NEW i \in 1 .. 15, NEW j \in 1 .. 15, q[i].name = q[j].name
      PROVE  i = j
  <2>1. \A m \in 1 .. 13 : \A n \in 1 .. 13 : c[m].name = c[n].name => m = n
    BY <1>1 DEF IsList
  <2>2. CASE i \in {1, 15} /\ j \in {1, 15}
    BY <1>4, <1>7, <2>2
  <2>3. CASE i \notin {1, 15} /\ j \notin {1, 15}
    <3>1. /\ i - 1 \in 1 .. 13 /\ j - 1 \in 1 .. 13
          /\ c[i - 1].name = c[j - 1].name
      BY <1>6, <1>7, <2>3
    <3>2. i - 1 = j - 1
      BY <2>1, <3>1
    <3> QED  BY <3>2
  <2>4. \A m \in 1 .. 15 : m \notin {1, 15} => q[m].name \notin {"WETH", "Multicall2"}
    BY <1>3, <1>6
  <2>5. CASE (i \in {1, 15}) # (j \in {1, 15})
    BY <1>4, <1>7, <2>4, <2>5
  <2> QED  BY <2>2, <2>3, <2>5
<1>8. ASSUME NEW i \in 1 .. 15
      PROVE  Refers(q, i)
  <2>1. CASE i = 1 \/ i = 15
    BY <1>4, <2>1 DEF Refers
  <2>2. CASE i # 1 /\ i # 15
    <3>1. Refers(c, i - 1)
      BY <1>1, <1>6, <2>2 DEF IsList
    <3>2. \A j \in 1 .. (i - 1) - 1 : j + 1 \in 1 .. i - 1 /\ q[j + 1].name = c[j].name
      BY <1>2
    <3>3. q[i].args = c[i - 1].args
      BY <1>6, <2>2
    <3> QED  BY <3>1, <3>2, <3>3 DEF Refers
  <2> QED  BY <2>1, <2>2
<1>9. ASSUME NEW i \in 1 .. 15
      PROVE  q[i].validated = FALSE /\ q[i].name # "none"
  <2>1. \A m \in 1 .. 13 : c[m].name # "none"
    BY <1>1 DEF IsList
  <2> QED  BY <1>3, <1>4, <1>6, <2>1
<1>10. \A i \in 1 .. 15 : q[i].validated \in BOOLEAN /\ (q[i].validated => q[i].offset = i - 1)
  BY <1>9
<1>11. IsList(q)
  BY <1>2, <1>7, <1>8, <1>9, <1>10 DEF IsList
<1> QED  BY <1>2, <1>5, <1>11 DEF q

\* The contracts of a new descriptor, with its libraries.
LEMMA DescriptorListed ==
  /\ IsList(descriptorV2_contracts) /\ Len(descriptorV2_contracts) = 5
  /\ ArtLayout(descriptorV2_contracts, 3, 5, 4)
<1> DEFINE c == descriptorV2_contracts
<1>1. /\ Len(c) = 5 /\ \A i \in 1 .. 5 : c[i].validated = FALSE
      /\ \A i \in {1, 2, 4} : c[i].args = NoArgs
      /\ c[1].name = "NFTDescriptorV2" /\ c[2].name = "SVGRenderer"
      /\ c[3].name = "NounsDescriptorV2" /\ c[4].name = "Inflator" /\ c[5].name = "NounsArt"
  BY DEF descriptorV2_contracts, New
<1>2. /\ c[3].args = [art |-> At(4), renderer |-> Of("SVGRenderer"),
                      library |-> Of("NFTDescriptorV2")]
      /\ c[5].args = [descriptor |-> Of("NounsDescriptorV2"), inflator |-> Of("Inflator")]
  BY DEF descriptorV2_contracts, New
<1> HIDE DEF c
<1>3. \A n : At(n).ahead /\ At(n).offset = n
  BY DEF At
<1>4. \A name : ~Of(name).ahead /\ Of(name).of = name
  BY DEF Of
<1>5. \A i \in {1, 2, 4} : Refers(c, i)
  BY <1>1 DEF Refers, NoArgs
<1>6. DOMAIN c[3].args = {"art", "renderer", "library"}
  BY <1>2
<1>7. /\ c[3].args["art"] = At(4) /\ c[3].args["renderer"] = Of("SVGRenderer")
      /\ c[3].args["library"] = Of("NFTDescriptorV2")
  BY <1>2
<1>8. Refers(c, 3)
  BY <1>1, <1>3, <1>4, <1>6, <1>7 DEF Refers
<1>9. DOMAIN c[5].args = {"descriptor", "inflator"}
  BY <1>2
<1>10. c[5].args["descriptor"] = Of("NounsDescriptorV2") /\ c[5].args["inflator"] = Of("Inflator")
  BY <1>2
<1>11. Refers(c, 5)
  BY <1>1, <1>3, <1>4, <1>9, <1>10 DEF Refers
<1>12. ArtLayout(c, 3, 5, 4)
  BY <1>1, <1>6, <1>7, <1>9, <1>10 DEF ArtLayout
<1>13. \A i \in 1 .. 5 : Refers(c, i)
  BY <1>5, <1>8, <1>11
<1>14. \A i, j \in 1 .. 5 : c[i].name = c[j].name => i = j
  BY <1>1
<1>15. \A i \in 1 .. 5 : c[i].name # "none"
  BY <1>1
<1>16. \A i \in 1 .. 5 : c[i].validated \in BOOLEAN /\ (c[i].validated => c[i].offset = i - 1)
  BY <1>1
<1>17. IsList(c)
  BY <1>1, <1>13, <1>14, <1>15, <1>16 DEF IsList
<1> QED  BY <1>1, <1>12, <1>17 DEF c

\* The contracts of a new descriptor alone.
LEMMA ShortDescriptorListed ==
  /\ IsList(cnnounsDescriptorV2_contracts) /\ Len(cnnounsDescriptorV2_contracts) = 2
  /\ ArtLayout(cnnounsDescriptorV2_contracts, 1, 2, 1)
<1> DEFINE c == cnnounsDescriptorV2_contracts
<1>1. /\ Len(c) = 2 /\ \A i \in 1 .. 2 : c[i].validated = FALSE
      /\ c[1].name = "NounsDescriptorV2" /\ c[2].name = "NounsArt"
      /\ c[1].args = [art |-> At(1)] /\ c[2].args = [descriptor |-> Of("NounsDescriptorV2")]
  BY DEF cnnounsDescriptorV2_contracts, New
<1> HIDE DEF c
<1>2. /\ DOMAIN c[1].args = {"art"} /\ c[1].args["art"] = At(1)
      /\ DOMAIN c[2].args = {"descriptor"}
      /\ c[2].args["descriptor"] = Of("NounsDescriptorV2")
  BY <1>1
<1>3. Refers(c, 1) /\ Refers(c, 2)
  <2>1. At(1).ahead /\ At(1).offset = 1
    BY DEF At
  <2>2. \A name : ~Of(name).ahead /\ Of(name).of = name
    BY DEF Of
  <2> QED  BY <1>1, <1>2, <2>1, <2>2 DEF Refers
<1>4. ArtLayout(c, 1, 2, 1)
  BY <1>1, <1>2 DEF ArtLayout
<1>5. \A i \in 1 .. 2 : Refers(c, i)
  BY <1>3
<1>6. \A i, j \in 1 .. 2 : c[i].name = c[j].name => i = j
  BY <1>1
<1>7. \A i \in 1 .. 2 : c[i].name # "none"
  BY <1>1
<1>8. \A i \in 1 .. 2 : c[i].validated \in BOOLEAN /\ (c[i].validated => c[i].offset = i - 1)
  BY <1>1
<1>9. IsList(c)
  BY <1>1, <1>5, <1>6, <1>7, <1>8 DEF IsList
<1> QED  BY <1>1, <1>4, <1>9 DEF c

-----------------------------------------------------------------------------
(* The configurations.                                                     *)

\* A configuration that uploads as do says: what is handed over is ownable and handed over
\* once, a house only after it was unpaused, and that, if what is uploaded is counted, only
\* after every part was.
IsConfiguration(q, do) ==
  /\ Len(q) \in Nat
  /\ \A i \in 1 .. Len(q) : q[i].do = "own" => q[i].what \in Ownable
  /\ \A i, j \in 1 .. Len(q) : q[i].do \in {"put", "page"} /\ q[j].do = "own" => i < j
  /\ \A i, j \in 1 .. Len(q) :
       q[i].do = "own" /\ q[j].do = "own" /\ q[i].what = q[j].what => i = j
  /\ do = "put" => \A i \in 1 .. Len(q) : q[i].do = "unpause" =>
       \A part \in CountedParts : \E j \in 1 .. i - 1 : q[j].do = "put" /\ q[j].what = part
  /\ \A j \in 1 .. Len(q) : q[j].do = "own" /\ q[j].what = "NounsAuctionHouseProxy" =>
       /\ \E i \in 1 .. j - 1 : q[i].do = "unpause"
       /\ \A i \in 1 .. Len(q) : q[i].do = "unpause" => i < j

\* The first steps of a configuration upload every part, counted or in pages.
Populates(q, do) ==
  /\ \A i \in 1 .. 13 : q[i].do \in {"put", "page"}
  /\ do = "put" => \A part \in CountedParts : \E i \in 1 .. 13 : q[i].do = "put" /\ q[i].what = part

\* populate-descriptor uploads every part, whichever images it takes.
LEMMA Populated ==
  ASSUME NEW do \in {"put", "page"}, NEW from
  PROVE  Len(Uploads(do, from)) = 13 /\ Populates(Uploads(do, from), do)
<1> DEFINE u == Uploads(do, from)
<1>1. Len(u) = 13
  BY DEF Uploads
<1>2. u[1].do = "put" /\ u[2].do = "put" /\ \A i \in 3 .. 13 : u[i].do = do
  BY DEF Uploads, Upload, Step
<1>3. /\ u[1].what = "bgcolors" /\ u[2].what = "palette" /\ u[3].what = "specials"
      /\ u[4].what = "chokers" /\ u[5].what = "headphones" /\ u[6].what = "leftHands"
      /\ u[7].what = "hats" /\ u[8].what = "clothes" /\ u[9].what = "ears"
      /\ u[10].what = "backs" /\ u[11].what = "backDecorations"
      /\ u[12].what = "backgroundDecorations" /\ u[13].what = "hairs"
  BY DEF Uploads, Upload, Step
<1> HIDE DEF u
<1>5. \A part \in CountedParts : \E i \in 1 .. 13 : u[i].what = part
  BY <1>3 DEF Parts, CountedParts
<1>6. \A i \in 1 .. 13 : u[i].do \in {"put", "page"} /\ (do = "put" => u[i].do = "put")
  <2>1. \A i \in 1 .. 13 : i = 1 \/ i = 2 \/ i \in 3 .. 13
    OBVIOUS
  <2> QED  BY <1>2, <2>1
<1>7. Populates(u, do)
  BY <1>5, <1>6 DEF Populates
<1> QED  BY <1>1, <1>7 DEF u

\* What follows the uploads.
IsTail(r) ==
  /\ \A i \in 1 .. Len(r) : r[i].do \notin {"put", "page"}
  /\ \A i \in 1 .. Len(r) : r[i].do = "own" => r[i].what \in Ownable
  /\ \A i, j \in 1 .. Len(r) :
       r[i].do = "own" /\ r[j].do = "own" /\ r[i].what = r[j].what => i = j
  /\ \A j \in 1 .. Len(r) : r[j].do = "own" /\ r[j].what = "NounsAuctionHouseProxy" =>
       /\ \E i \in 1 .. j - 1 : r[i].do = "unpause"
       /\ \A i \in 1 .. Len(r) : r[i].do = "unpause" => i < j

\* A configuration is the uploads and what follows them.
LEMMA IsPopulated ==
  ASSUME NEW S, NEW u \in Seq(S), NEW r \in Seq(S), NEW do, Len(u) = 13, Populates(u, do),
         IsTail(r)
  PROVE  IsConfiguration(u \o r, do) /\ IsJoin(u \o r, u, r)
<1> DEFINE q == u \o r
           n == Len(r)
<1>1. IsJoin(q, u, r) /\ n \in Nat
  BY Joined
<1> HIDE DEF q, n
<1>2. /\ Len(q) = 13 + n
      /\ \A i \in 1 .. 13 : q[i] = u[i]
      /\ \A i \in 1 .. n : q[13 + i] = r[i]
  BY <1>1 DEF IsJoin, n
<1>3. \A i \in 1 .. 13 + n : i \in 1 .. 13 \/ (i - 13 \in 1 .. n /\ 13 + (i - 13) = i)
  BY <1>1
<1>4. \A i \in 1 .. 13 + n : i \in 1 .. 13 \/ (i - 13 \in 1 .. n /\ q[i] = r[i - 13])
  BY <1>2, <1>3
<1>5. \A i \in 1 .. 13 : q[i].do \in {"put", "page"}
  BY <1>2 DEF Populates
<1>7. ASSUME NEW i \in 1 .. Len(q), q[i].do = "own"
      PROVE  q[i].what \in Ownable
  <2>1. i \in 1 .. 13 \/ (i - 13 \in 1 .. n /\ q[i] = r[i - 13])
    BY <1>2, <1>4
  <2> QED  BY <1>5, <1>7, <2>1 DEF n, IsTail
<1>8. ASSUME NEW i \in 1 .. Len(q), NEW j \in 1 .. Len(q),
             q[i].do = "own" /\ q[j].do = "own" /\ q[i].what = q[j].what
      PROVE  i = j
  <2>1. i \notin 1 .. 13 /\ j \notin 1 .. 13
    BY <1>5, <1>8
  <2>2. /\ i - 13 \in 1 .. n /\ q[i] = r[i - 13]
        /\ j - 13 \in 1 .. n /\ q[j] = r[j - 13]
    BY <1>2, <1>4, <2>1
  <2>3. i - 13 = j - 13
    BY <1>8, <2>2 DEF n, IsTail
  <2> QED  BY <2>3
<1>9. ASSUME do = "put", NEW i \in 1 .. Len(q), q[i].do = "unpause", NEW part \in CountedParts
      PROVE  \E j \in 1 .. i - 1 : q[j].do = "put" /\ q[j].what = part
  <2>1. i \notin 1 .. 13
    BY <1>5, <1>9
  <2>2. PICK j \in 1 .. 13 : u[j].do = "put" /\ u[j].what = part
    BY <1>9 DEF Populates
  <2>3. j \in 1 .. i - 1
    BY <1>1, <1>2, <2>1
  <2> QED  BY <1>2, <2>2, <2>3
<1>10. ASSUME NEW j \in 1 .. Len(q), q[j].do = "own" /\ q[j].what = "NounsAuctionHouseProxy"
       PROVE  /\ \E i \in 1 .. j - 1 : q[i].do = "unpause"
              /\ \A i \in 1 .. Len(q) : q[i].do = "unpause" => i < j
  <2>1. j \notin 1 .. 13
    BY <1>5, <1>10
  <2>2. j - 13 \in 1 .. n /\ q[j] = r[j - 13]
    BY <1>2, <1>4, <2>1
  <2>3. /\ \E i \in 1 .. (j - 13) - 1 : r[i].do = "unpause"
        /\ \A i \in 1 .. n : r[i].do = "unpause" => i < j - 13
    BY <1>10, <2>2 DEF n, IsTail
  <2>4. \E i \in 1 .. j - 1 : q[i].do = "unpause"
    <3>1. PICK i \in 1 .. (j - 13) - 1 : r[i].do = "unpause"
      BY <2>3
    <3>2. i \in 1 .. n /\ 13 + i \in 1 .. j - 1
      BY <1>1, <2>2
    <3>3. q[13 + i] = r[i]
      BY <1>2, <3>2
    <3> QED  BY <3>1, <3>2, <3>3
  <2>5. ASSUME NEW i \in 1 .. Len(q), q[i].do = "unpause"
        PROVE  i < j
    <3>1. i - 13 \in 1 .. n /\ q[i] = r[i - 13]
      BY <1>2, <1>4, <1>5, <2>5
    <3>2. i - 13 < j - 13
      BY <2>3, <2>5, <3>1
    <3> QED  BY <1>1, <3>1, <3>2
  <2> QED  BY <2>4, <2>5
<1>11. IsConfiguration(q, do)
  <2>1. Len(q) \in Nat
    BY <1>1, <1>2
  <2>2. \A i, j \in 1 .. Len(q) :
          q[i].do = "own" /\ q[j].do = "own" /\ q[i].what = q[j].what => i = j
    BY <1>8
  <2>3. \A j \in 1 .. Len(q) : q[j].do = "own" /\ q[j].what = "NounsAuctionHouseProxy" =>
          /\ \E i \in 1 .. j - 1 : q[i].do = "unpause"
          /\ \A i \in 1 .. Len(q) : q[i].do = "unpause" => i < j
    BY <1>10
  <2>4. ASSUME NEW i \in 1 .. Len(q), NEW j \in 1 .. Len(q), q[i].do \in {"put", "page"},
               q[j].do = "own"
        PROVE  i < j
    <3>1. i \in 1 .. 13 \/ (i - 13 \in 1 .. n /\ q[i] = r[i - 13])
      BY <1>2, <1>4
    <3>2. i \in 1 .. 13
      BY <2>4, <3>1 DEF n, IsTail
    <3>3. j \notin 1 .. 13
      BY <1>5, <2>4
    <3> QED  BY <1>1, <1>2, <3>2, <3>3
  <2>5. \A i, j \in 1 .. Len(q) : q[i].do \in {"put", "page"} /\ q[j].do = "own" => i < j
    BY <2>4
  <2> QED  BY <1>7, <1>9, <2>1, <2>2, <2>3, <2>5 DEF IsConfiguration
<1> QED  BY <1>1, <1>11 DEF q

\* The steps that hand a full deployment over, with or without its auction and the
\* configuration files.
HandoverSteps(start, update, governor) ==
  Handover \o StartAuction(start) \o When(update, <<Configs(governor)>>)

\* The steps of the handover, one by one.
LEMMA TailShape ==
  ASSUME NEW start \in BOOLEAN, NEW update \in BOOLEAN, NEW governor, NEW Steps,
         \A name \in Ownable : Own(name) \in Steps,
         Unpause \in Steps, Configs(governor) \in Steps
  PROVE  LET r == HandoverSteps(start, update, governor)
         IN /\ r \in Seq(Steps)
            /\ Len(r) = (IF start THEN 5 ELSE 3) + (IF update THEN 1 ELSE 0)
            /\ r[1] = Own("NounsDescriptorV2") /\ r[2] = Own("NounsToken")
            /\ r[3] = Own("NounsAuctionHouseProxyAdmin")
            /\ start => r[4] = Unpause /\ r[5] = Own("NounsAuctionHouseProxy")
            /\ update => r[Len(r)] = Configs(governor)
<1> DEFINE a == Own("NounsDescriptorV2")
           b == Own("NounsToken")
           c == Own("NounsAuctionHouseProxyAdmin")
           d == Unpause
           e == Own("NounsAuctionHouseProxy")
           f == Configs(governor)
           h == Handover
           s == StartAuction(start)
           w == When(update, <<Configs(governor)>>)
           r == HandoverSteps(start, update, governor)
<1>1. {a, b, c, d, e, f} \subseteq Steps
  BY DEF Ownable
<1>2. h = <<a, b, c>>
  BY DEF Handover
<1>3. s = IF start THEN <<d, e>> ELSE <<>>
  BY DEF StartAuction, When
<1>4. w = IF update THEN <<f>> ELSE <<>>
  BY DEF When
<1>5. r = (h \o s) \o w
  BY DEF HandoverSteps
<1> HIDE DEF a, b, c, d, e, f, h, s, w, r
<1>6. h \in Seq(Steps) /\ s \in Seq(Steps) /\ w \in Seq(Steps)
  BY <1>1, <1>2, <1>3, <1>4
<1>7. r \in Seq(Steps)
  BY <1>5, <1>6, ConcatProperties
<1>8. CASE start /\ update
  <2>1. r = (<<a, b, c>> \o <<d, e>>) \o <<f>>
    BY <1>2, <1>3, <1>4, <1>5, <1>8
  <2>2. /\ Len(r) = 6 /\ r[1] = a /\ r[2] = b /\ r[3] = c /\ r[4] = d /\ r[5] = e /\ r[6] = f
    BY <2>1
  <2>3. Len(r) = 5 + 1 /\ r[Len(r)] = f
    BY <2>2
  <2> QED  BY <1>7, <1>8, <2>2, <2>3 DEF a, b, c, d, e, f, r
<1>9. CASE start /\ ~update
  <2>1. r = (<<a, b, c>> \o <<d, e>>) \o <<>>
    BY <1>2, <1>3, <1>4, <1>5, <1>9
  <2>2. Len(r) = 5 /\ r[1] = a /\ r[2] = b /\ r[3] = c /\ r[4] = d /\ r[5] = e
    BY <2>1
  <2>3. Len(r) = 5 + 0
    BY <2>2
  <2> QED  BY <1>7, <1>9, <2>2, <2>3 DEF a, b, c, d, e, f, r
<1>10. CASE ~start /\ update
  <2>1. r = (<<a, b, c>> \o <<>>) \o <<f>>
    BY <1>2, <1>3, <1>4, <1>5, <1>10
  <2>2. Len(r) = 4 /\ r[1] = a /\ r[2] = b /\ r[3] = c /\ r[4] = f
    BY <2>1
  <2>3. Len(r) = 3 + 1 /\ r[Len(r)] = f
    BY <2>2
  <2> QED  BY <1>7, <1>10, <2>2, <2>3 DEF a, b, c, d, e, f, r
<1>11. CASE ~start /\ ~update
  <2>1. r = (<<a, b, c>> \o <<>>) \o <<>>
    BY <1>2, <1>3, <1>4, <1>5, <1>11
  <2>2. Len(r) = 3 /\ r[1] = a /\ r[2] = b /\ r[3] = c
    BY <2>1
  <2> QED  BY <1>7, <1>11, <2>2 DEF a, b, c, d, e, f, r
<1> QED  BY <1>8, <1>9, <1>10, <1>11

\* Everything of names is handed over at some step.
HandsOver(q, names) ==
  \A name \in names : \E i \in 1 .. Len(q) : q[i].do = "own" /\ q[i].what = name

\* What a step says.
LEMMA StepFields ==
  /\ \A name : Own(name).do = "own" /\ Own(name).what = name
  /\ \A name : Configs(name).do = "configs"
  /\ Unpause.do = "unpause"
BY DEF Own, Configs, Unpause, Step

\* The uploads are a sequence of steps.
LEMMA UploadsAreSteps ==
  ASSUME NEW do, NEW from, NEW Steps, \A i \in 1 .. 13 : Uploads(do, from)[i] \in Steps
  PROVE  Uploads(do, from) \in Seq(Steps)
<1> DEFINE u == Uploads(do, from)
<1>1. Len(u) = 13 /\ u = [i \in 1 .. 13 |-> u[i]]
  BY DEF Uploads
<1> HIDE DEF u
<1>2. (\A i \in 1 .. 13 : u[i] \in Steps) => u \in [1 .. 13 -> Steps]
  BY <1>1
<1>3. 13 \in Nat
  OBVIOUS
<1>4. (\A i \in 1 .. 13 : u[i] \in Steps) => u \in Seq(Steps)
  BY <1>2, <1>3, SeqDef
<1> QED  BY <1>4 DEF u

\* Uploads and the handover, the auction started or not: all but the house is handed over,
\* and the house with its auction.
LEMMA HandedConfiguration ==
  ASSUME NEW start \in BOOLEAN, NEW update \in BOOLEAN, NEW governor, NEW do \in {"put", "page"},
         NEW from
  PROVE  LET q == Uploads(do, from) \o Handover \o StartAuction(start)
                    \o When(update, <<Configs(governor)>>)
         IN /\ IsConfiguration(q, do)
            /\ HandsOver(q, Ownable \ {"NounsAuctionHouseProxy"})
            /\ ~start => \A i \in 1 .. Len(q) : q[i].do # "unpause"
<1> DEFINE u == Uploads(do, from)
           r == HandoverSteps(start, update, governor)
           Steps == {u[i] : i \in 1 .. 13} \cup {Own(name) : name \in Ownable}
                      \cup {Unpause, Configs(governor)}
           q == ((u \o Handover) \o StartAuction(start)) \o When(update, <<Configs(governor)>>)
<1>1. /\ \A name \in Ownable : Own(name) \in Steps
      /\ Unpause \in Steps /\ Configs(governor) \in Steps
      /\ \A i \in 1 .. 13 : u[i] \in Steps
  OBVIOUS
<1>2. Len(u) = 13 /\ Populates(u, do)
  BY Populated
<1> HIDE DEF Steps
<1>3. u \in Seq(Steps)
  BY <1>1, UploadsAreSteps
<1>4. /\ r \in Seq(Steps)
      /\ Len(r) = (IF start THEN 5 ELSE 3) + (IF update THEN 1 ELSE 0)
      /\ r[1] = Own("NounsDescriptorV2") /\ r[2] = Own("NounsToken")
      /\ r[3] = Own("NounsAuctionHouseProxyAdmin")
      /\ start => r[4] = Unpause /\ r[5] = Own("NounsAuctionHouseProxy")
      /\ update => r[Len(r)] = Configs(governor)
  BY <1>1, TailShape
<1>5. q = u \o r
  <2> DEFINE h == Handover
             s == StartAuction(start)
             w == When(update, <<Configs(governor)>>)
  <2>1. h \in Seq(Steps) /\ s \in Seq(Steps) /\ w \in Seq(Steps)
    BY <1>1 DEF Handover, StartAuction, When, Ownable
  <2>2. q = ((u \o h) \o s) \o w /\ r = (h \o s) \o w
    BY DEF HandoverSteps
  <2> HIDE DEF u, h, s, w, q, r
  <2>3. (u \o h) \o s = u \o (h \o s)
    BY <1>3, <2>1, ConcatAssociative
  <2>4. h \o s \in Seq(Steps)
    BY <2>1, ConcatProperties
  <2>5. (u \o (h \o s)) \o w = u \o ((h \o s) \o w)
    <3> DEFINE f == h \o s
    <3>1. f \in Seq(Steps) /\ w \in Seq(Steps)
      BY <2>1, <2>4
    <3> HIDE DEF f
    <3>2. (u \o f) \o w = u \o (f \o w)
      BY ONLY <1>3, <3>1, ConcatAssociative
    <3> QED  BY <3>2 DEF f
  <2> QED  BY <2>2, <2>3, <2>5
<1> HIDE DEF u, r, q
<1>6. \A i \in 1 .. Len(r) :
        \/ i = 1 /\ r[i].do = "own" /\ r[i].what = "NounsDescriptorV2"
        \/ i = 2 /\ r[i].do = "own" /\ r[i].what = "NounsToken"
        \/ i = 3 /\ r[i].do = "own" /\ r[i].what = "NounsAuctionHouseProxyAdmin"
        \/ start /\ i = 4 /\ r[i].do = "unpause"
        \/ start /\ i = 5 /\ r[i].do = "own" /\ r[i].what = "NounsAuctionHouseProxy"
        \/ i = Len(r) /\ r[i].do = "configs"
  BY <1>4, StepFields
<1>7. Len(r) \in Nat
  BY <1>4
<1>8. \A i \in 1 .. Len(r) : r[i].do \notin {"put", "page"}
  BY <1>6
<1>9. \A i \in 1 .. Len(r) : r[i].do = "own" => r[i].what \in Ownable
  BY <1>6 DEF Ownable
<1>10. ASSUME NEW i \in 1 .. Len(r), NEW j \in 1 .. Len(r),
              r[i].do = "own" /\ r[j].do = "own" /\ r[i].what = r[j].what
       PROVE  i = j
  BY <1>6, <1>10
<1>11. ASSUME NEW j \in 1 .. Len(r), r[j].do = "own" /\ r[j].what = "NounsAuctionHouseProxy"
       PROVE  /\ \E i \in 1 .. j - 1 : r[i].do = "unpause"
              /\ \A i \in 1 .. Len(r) : r[i].do = "unpause" => i < j
  <2>1. start /\ j = 5
    BY <1>6, <1>11
  <2>2. r[4].do = "unpause" /\ 4 \in 1 .. j - 1
    BY <1>4, <2>1, StepFields
  <2>3. \A i \in 1 .. Len(r) : r[i].do = "unpause" => i = 4
    BY <1>6
  <2> QED  BY <2>1, <2>2, <2>3
<1>12. /\ IsConfiguration(q, do) /\ Len(q) = 13 + Len(r)
       /\ \A i \in 1 .. Len(r) : q[13 + i] = r[i]
       /\ \A i \in 1 .. 13 : q[i] = u[i]
  <2>1. IsTail(r)
    BY <1>8, <1>9, <1>10, <1>11 DEF IsTail
  <2>2. r \in Seq(Steps) /\ Len(u) = 13 /\ Populates(u, do) /\ q = u \o r /\ u \in Seq(Steps)
    BY <1>2, <1>3, <1>4, <1>5
  <2>3. IsConfiguration(q, do) /\ IsJoin(q, u, r)
    BY ONLY <2>1, <2>2, IsPopulated, Zenon
  <2> QED  BY <2>2, <2>3 DEF IsJoin
<1>13. HandsOver(q, Ownable \ {"NounsAuctionHouseProxy"})
  <2>1. /\ {13 + 1, 13 + 2, 13 + 3} \subseteq 1 .. Len(q) /\ {1, 2, 3} \subseteq 1 .. Len(r)
    BY <1>4, <1>12
  <2>2. /\ q[13 + 1] = Own("NounsDescriptorV2") /\ q[13 + 2] = Own("NounsToken")
        /\ q[13 + 3] = Own("NounsAuctionHouseProxyAdmin")
    BY <1>4, <1>12, <2>1
  <2> QED  BY <2>1, <2>2, StepFields DEF HandsOver, Ownable
<1>15. ASSUME ~start, NEW i \in 1 .. Len(q)
       PROVE  q[i].do # "unpause"
  <2>1. CASE i \in 1 .. 13
    BY <1>2, <1>12, <2>1 DEF Populates
  <2>2. CASE i \notin 1 .. 13
    <3>1. i - 13 \in 1 .. Len(r) /\ 13 + (i - 13) = i
      BY <1>7, <1>12, <2>2
    <3>2. q[i] = r[i - 13]
      BY <1>12, <3>1
    <3> QED  BY <1>6, <1>15, <3>1, <3>2
  <2> QED  BY <2>1, <2>2
<1> QED  BY <1>12, <1>13, <1>15 DEF q, u

\* Uploads alone, with or without the configuration files.
LEMMA UploadingConfiguration ==
  ASSUME NEW update \in BOOLEAN, NEW governor, NEW do \in {"put", "page"},
         NEW from
  PROVE  LET q == Uploads(do, from) \o When(update, <<Configs(governor)>>)
         IN  IsConfiguration(q, do) /\ \A i \in 1 .. Len(q) : q[i].do \notin {"own", "unpause"}
<1> DEFINE u == Uploads(do, from)
           r == When(update, <<Configs(governor)>>)
           Steps == {u[i] : i \in 1 .. 13} \cup {Configs(governor)}
           q == u \o r
<1>1. Configs(governor) \in Steps /\ \A i \in 1 .. 13 : u[i] \in Steps
  OBVIOUS
<1>2. Len(u) = 13 /\ Populates(u, do)
  BY Populated
<1> HIDE DEF Steps
<1>3. u \in Seq(Steps)
  BY <1>1, UploadsAreSteps
<1>4. /\ r \in Seq(Steps) /\ Len(r) = IF update THEN 1 ELSE 0
      /\ \A i \in 1 .. Len(r) : r[i] = Configs(governor)
  BY <1>1 DEF When
<1>5. q = u \o r
  OBVIOUS
<1> HIDE DEF u, r, q
<1>6. \A i \in 1 .. Len(r) : r[i].do = "configs"
  BY <1>4, StepFields
<1>7. IsTail(r)
  BY <1>6 DEF IsTail
<1>8. IsConfiguration(q, do) /\ IsJoin(q, u, r)
  <2>1. r \in Seq(Steps)
    BY <1>4
  <2> QED  BY ONLY <1>2, <1>3, <1>5, <1>7, <2>1, IsPopulated, Zenon
<1>9. ASSUME NEW i \in 1 .. Len(q)
      PROVE  q[i].do \notin {"own", "unpause"}
  <2>1. CASE i \in 1 .. 13
    BY <1>2, <1>8, <2>1 DEF IsJoin, Populates
  <2>2. CASE i \notin 1 .. 13
    <3>1. i - 13 \in 1 .. Len(r) /\ 13 + (i - 13) = i
      BY <1>2, <1>4, <1>8, <2>2 DEF IsJoin
    <3>2. q[i] = r[i - 13]
      BY <1>2, <1>8, <3>1 DEF IsJoin
    <3> QED  BY <1>6, <3>1, <3>2
  <2> QED  BY <2>1, <2>2
<1> QED  BY <1>8, <1>9 DEF q, u, r

\* Uploads, and the descriptor handed over.
LEMMA DescriptorConfiguration ==
  ASSUME NEW do \in {"put", "page"}, NEW from
  PROVE  LET q == Uploads(do, from) \o <<Own("NounsDescriptorV2")>>
         IN  /\ IsConfiguration(q, do)
             /\ \A i \in 1 .. Len(q) :
                  \/ q[i].do \in {"put", "page"}
                  \/ q[i].do = "own" /\ q[i].what = "NounsDescriptorV2"
<1> DEFINE u == Uploads(do, from)
           r == <<Own("NounsDescriptorV2")>>
           Steps == {u[i] : i \in 1 .. 13} \cup {Own("NounsDescriptorV2")}
           q == u \o r
<1>1. Own("NounsDescriptorV2") \in Steps /\ \A i \in 1 .. 13 : u[i] \in Steps
  OBVIOUS
<1>2. Len(u) = 13 /\ Populates(u, do)
  BY Populated
<1> HIDE DEF Steps
<1>3. u \in Seq(Steps)
  BY <1>1, UploadsAreSteps
<1>4. r \in Seq(Steps) /\ Len(r) = 1 /\ r[1] = Own("NounsDescriptorV2")
  BY <1>1
<1>5. q = u \o r
  OBVIOUS
<1> HIDE DEF u, r, q
<1>6. \A i \in 1 .. Len(r) : r[i].do = "own" /\ r[i].what = "NounsDescriptorV2"
  BY <1>4, StepFields
<1>7. IsTail(r)
  BY <1>4, <1>6 DEF IsTail, Ownable
<1>8. IsConfiguration(q, do) /\ IsJoin(q, u, r)
  <2>1. r \in Seq(Steps)
    BY <1>4
  <2> QED  BY ONLY <1>2, <1>3, <1>5, <1>7, <2>1, IsPopulated, Zenon
<1>9. ASSUME NEW i \in 1 .. Len(q)
      PROVE  q[i].do \in {"put", "page"} \/ (q[i].do = "own" /\ q[i].what = "NounsDescriptorV2")
  <2>1. CASE i \in 1 .. 13
    BY <1>2, <1>8, <2>1 DEF IsJoin, Populates
  <2>2. CASE i \notin 1 .. 13
    <3>1. i - 13 \in 1 .. Len(r) /\ 13 + (i - 13) = i
      BY <1>2, <1>4, <1>8, <2>2 DEF IsJoin
    <3>2. q[i] = r[i - 13]
      BY <1>2, <1>8, <3>1 DEF IsJoin
    <3> QED  BY <1>6, <3>1, <3>2
  <2> QED  BY <2>1, <2>2
<1> QED  BY <1>8, <1>9 DEF q, u, r

\* On the local chain the auction starts before anything is handed over.
LEMMA LocalConfiguration ==
  ASSUME NEW do \in {"put", "page"}, NEW from
  PROVE  LET q == Uploads(do, from) \o <<Unpause>> \o Handover \o <<Own("NounsAuctionHouseProxy")>>
         IN  IsConfiguration(q, do)
<1> DEFINE u == Uploads(do, from)
           h == Handover
           b == <<Unpause>>
           e == <<Own("NounsAuctionHouseProxy")>>
           r == (b \o h) \o e
           Steps == {u[i] : i \in 1 .. 13} \cup {Own(name) : name \in Ownable} \cup {Unpause}
           q == ((u \o b) \o h) \o e
<1>1. /\ \A name \in Ownable : Own(name) \in Steps
      /\ Unpause \in Steps /\ \A i \in 1 .. 13 : u[i] \in Steps
  OBVIOUS
<1>2. Len(u) = 13 /\ Populates(u, do)
  BY Populated
<1> HIDE DEF Steps
<1>3. u \in Seq(Steps)
  BY <1>1, UploadsAreSteps
<1>4. h \in Seq(Steps) /\ b \in Seq(Steps) /\ e \in Seq(Steps)
  BY <1>1 DEF Handover, Ownable
<1>5. r \in Seq(Steps)
  <2> HIDE DEF h, b, e
  <2> QED  BY <1>4, ConcatProperties
<1>6. q = u \o r
  <2> HIDE DEF u, h, b, e
  <2>1. (u \o b) \o h = u \o (b \o h)
    BY <1>3, <1>4, ConcatAssociative
  <2>2. b \o h \in Seq(Steps)
    BY <1>4, ConcatProperties
  <2>3. (u \o (b \o h)) \o e = u \o ((b \o h) \o e)
    <3> DEFINE f == b \o h
    <3>1. f \in Seq(Steps) /\ e \in Seq(Steps)
      BY <1>4, <2>2
    <3> HIDE DEF f
    <3>2. (u \o f) \o e = u \o (f \o e)
      BY ONLY <1>3, <3>1, ConcatAssociative
    <3> QED  BY <3>2 DEF f
  <2> QED  BY <2>1, <2>3
<1>7. /\ Len(r) = 5 /\ r[1] = Unpause /\ r[2] = Own("NounsDescriptorV2")
      /\ r[3] = Own("NounsToken") /\ r[4] = Own("NounsAuctionHouseProxyAdmin")
      /\ r[5] = Own("NounsAuctionHouseProxy")
  BY DEF Handover
<1> HIDE DEF u, r, q
<1>8. /\ r[1].do = "unpause"
      /\ r[2].do = "own" /\ r[2].what = "NounsDescriptorV2"
      /\ r[3].do = "own" /\ r[3].what = "NounsToken"
      /\ r[4].do = "own" /\ r[4].what = "NounsAuctionHouseProxyAdmin"
      /\ r[5].do = "own" /\ r[5].what = "NounsAuctionHouseProxy"
  BY <1>7, StepFields
<1>9. IsTail(r)
  <2>1. \A i \in 1 .. 5 : i = 1 \/ i = 2 \/ i = 3 \/ i = 4 \/ i = 5
    OBVIOUS
  <2>2. \A i \in 1 .. 5 : r[i].do \notin {"put", "page"} /\ (r[i].do = "unpause" => i = 1)
    BY <1>8, <2>1
  <2>3. \A i \in 1 .. 5 : r[i].do = "own" => r[i].what \in Ownable
    BY <1>8, <2>1 DEF Ownable
  <2>4. \A i, j \in 1 .. 5 :
          r[i].do = "own" /\ r[j].do = "own" /\ r[i].what = r[j].what => i = j
    BY <1>8, <2>1
  <2>5. ASSUME NEW j \in 1 .. 5, r[j].do = "own" /\ r[j].what = "NounsAuctionHouseProxy"
        PROVE  /\ \E i \in 1 .. j - 1 : r[i].do = "unpause"
               /\ \A i \in 1 .. 5 : r[i].do = "unpause" => i < j
    <3>1. j = 5
      BY <1>8, <2>1, <2>5
    <3>2. 1 \in 1 .. j - 1
      BY <3>1
    <3> QED  BY <1>8, <2>2, <3>1, <3>2
  <2> QED  BY <1>7, <2>2, <2>3, <2>4, <2>5 DEF IsTail
<1>10. IsConfiguration(q, do)
  BY ONLY <1>2, <1>3, <1>5, <1>6, <1>9, IsPopulated, Zenon
<1> QED  BY <1>10 DEF q, u

-----------------------------------------------------------------------------
(* The tasks, each with its list and its configuration.                    *)

\* The contracts of a full deployment.
FullList(t, c, k, governor) ==
  /\ IsList(c) /\ Len(c) >= k + 13 /\ Layout(c, k, k, governor)
  /\ t # "runLocal" => k = 0 /\ c[10].validated /\ c[13].validated
  /\ t \in {"cnnouns", "nigi"} => governor = "NounsDAOProxyV2"

\* Every full task deploys such a list.
LEMMA FullContracts ==
  ASSUME NEW t \in FullTasks
  PROVE  \E k \in 0 .. 1, governor \in Governors : FullList(t, Tasks[t].contracts, k, governor)
<1> DEFINE c1 == Contracts(4, 9, 12, "NounsDAOLogicV1", "NounsDAOProxy", TRUE)
           c2 == Contracts(4, 9, 12, "NounsDAOLogicV2", "NounsDAOProxyV2", TRUE)
<1>1. 0 \in 0 .. 1 /\ 0 + 4 = 4 /\ 0 + 9 = 9 /\ 0 + 12 = 12 /\ 1 \in 0 .. 1
  OBVIOUS
<1>2. "NounsDAOProxy" \in Governors /\ "NounsDAOProxyV2" \in Governors
  BY DEF Governors
<1>3. /\ IsList(c1) /\ Len(c1) = 13 /\ Layout(c1, 0, 0, "NounsDAOProxy")
      /\ c1[10].validated /\ c1[13].validated
  <2>1. TRUE \in BOOLEAN /\ "NounsDAOLogicV1" \in {"NounsDAOLogicV1", "NounsDAOLogicV2"}
    OBVIOUS
  <2>2. LET c == Contracts(0 + 4, 0 + 9, 0 + 12, "NounsDAOLogicV1", "NounsDAOProxy", TRUE)
        IN  /\ IsList(c) /\ Len(c) = 13 /\ Layout(c, 0, 0, "NounsDAOProxy")
            /\ TRUE => c[10].validated /\ c[13].validated
    BY <1>1, <1>2, <2>1, ContractsListed
  <2> QED  BY <1>1, <2>2
<1>4. /\ IsList(c2) /\ Len(c2) = 13 /\ Layout(c2, 0, 0, "NounsDAOProxyV2")
      /\ c2[10].validated /\ c2[13].validated
  <2>1. TRUE \in BOOLEAN /\ "NounsDAOLogicV2" \in {"NounsDAOLogicV1", "NounsDAOLogicV2"}
    OBVIOUS
  <2>2. LET c == Contracts(0 + 4, 0 + 9, 0 + 12, "NounsDAOLogicV2", "NounsDAOProxyV2", TRUE)
        IN  /\ IsList(c) /\ Len(c) = 13 /\ Layout(c, 0, 0, "NounsDAOProxyV2")
            /\ TRUE => c[10].validated /\ c[13].validated
    BY <1>1, <1>2, <2>1, ContractsListed
  <2> QED  BY <1>1, <2>2
<1>5. CASE t \in {"deployAndConfigure", "ci", "shortTimesDaov1"}
  <2>1. Tasks[t].contracts = c1
    <3>1. CASE t = "deployAndConfigure"
      BY <3>1 DEF Tasks, Task, deploy_contracts
    <3>2. CASE t = "ci"
      BY <3>2 DEF Tasks, Task, deploy_contracts
    <3>3. CASE t = "shortTimesDaov1"
      BY <3>3 DEF Tasks, Task, shortTimesDaov1_contracts
    <3> QED  BY <1>5, <3>1, <3>2, <3>3
  <2> HIDE DEF c1
  <2>2. FullList(t, c1, 0, "NounsDAOProxy")
    BY <1>3, <1>5 DEF FullList
  <2> QED  BY <1>1, <1>2, <2>1, <2>2
<1>6. CASE t \in {"shortTimes", "cnnouns", "nigi"}
  <2>1. Tasks[t].contracts = c2
    <3>1. CASE t = "shortTimes"
      BY <3>1 DEF Tasks, Task, shortTimes_contracts
    <3>2. CASE t = "cnnouns"
      BY <3>2 DEF Tasks, Task, cnnouns_contracts
    <3>3. CASE t = "nigi"
      BY <3>3 DEF Tasks, Task, nigi_contracts
    <3> QED  BY <1>6, <3>1, <3>2, <3>3
  <2> HIDE DEF c2
  <2>2. FullList(t, c2, 0, "NounsDAOProxyV2")
    BY <1>4, <1>6 DEF FullList
  <2> QED  BY <1>1, <1>2, <2>1, <2>2
<1>7. CASE t = "runLocal"
  <2>1. Tasks[t].contracts = local_contracts
    BY <1>7 DEF Tasks, Task
  <2>2. FullList(t, local_contracts, 1, "NounsDAOProxyV2")
    BY <1>7, LocalListed DEF FullList
  <2> QED  BY <1>1, <1>2, <2>1, <2>2
<1> QED  BY <1>5, <1>6, <1>7 DEF FullTasks

\* What a task deploys that nothing of a system is handed over to.
LEMMA DescriptorContracts ==
  ASSUME NEW t \in DescriptorTasks
  PROVE  LET c == Tasks[t].contracts
         IN /\ IsList(c)
            /\ \A i \in 1 .. Len(c) :
                 c[i].name \notin {"NounsDAOExecutor", "NounsDAOProxyV2", "NounsAuctionHouseProxy"}
            /\ \E descriptor \in 1 .. Len(c), ahead \in Nat :
                 ahead + 1 \in 1 .. Len(c) /\ ArtLayout(c, descriptor, ahead + 1, ahead)
<1>1. CASE t = "descriptorV2"
  <2> DEFINE c == descriptorV2_contracts
  <2>1. Tasks[t].contracts = c
    BY <1>1 DEF Tasks, Task
  <2>2. \A i \in 1 .. 5 :
          c[i].name \notin {"NounsDAOExecutor", "NounsDAOProxyV2", "NounsAuctionHouseProxy"}
    BY DEF descriptorV2_contracts, New
  <2> HIDE DEF c
  <2>3. IsList(c) /\ Len(c) = 5 /\ ArtLayout(c, 3, 4 + 1, 4)
    <3>1. 4 + 1 = 5
      OBVIOUS
    <3> QED  BY <3>1, DescriptorListed DEF c
  <2>4. 3 \in 1 .. Len(c) /\ 4 \in Nat /\ 4 + 1 \in 1 .. Len(c)
    BY <2>3
  <2> QED  BY <2>1, <2>2, <2>3, <2>4
<1>2. CASE t \in {"cnnounsDescriptorV2", "nigiDescriptorV2"}
  <2> DEFINE c == cnnounsDescriptorV2_contracts
  <2>1. Tasks[t].contracts = c
    BY <1>2 DEF Tasks, Task, nigiDescriptorV2_contracts
  <2>2. \A i \in 1 .. 2 :
          c[i].name \notin {"NounsDAOExecutor", "NounsDAOProxyV2", "NounsAuctionHouseProxy"}
    BY DEF cnnounsDescriptorV2_contracts, New
  <2> HIDE DEF c
  <2>3. IsList(c) /\ Len(c) = 2 /\ ArtLayout(c, 1, 1 + 1, 1)
    <3>1. 1 + 1 = 2
      OBVIOUS
    <3> QED  BY <3>1, ShortDescriptorListed DEF c
  <2>4. 1 \in 1 .. Len(c) /\ 1 \in Nat /\ 1 + 1 \in 1 .. Len(c)
    BY <2>3
  <2> QED  BY <2>1, <2>2, <2>3, <2>4
<1> QED  BY <1>1, <1>2 DEF DescriptorTasks

\* The terms of every task that runs outside a test are within the bounds of the timelock and
\* of the governor.
LEMMA TermsAccepted ==
  ASSUME NEW t \in DOMAIN Tasks, ~Tasks[t].tested
  PROVE  ExecutorAccepts(Tasks[t].terms) /\ GovernorAccepts(Tasks[t].terms)
<1>1. Days(2) = 172800 /\ Days(30) = 2592000
  BY DEF Days
<1>2. CASE t \in {"deployAndConfigure", "ci", "descriptorV2"}
  <2>1. Tasks[t].terms = Terms(172800, 26585, 19938, 1, 1000, 1000)
    BY <1>1, <1>2 DEF Tasks, Task, deploy_terms
  <2> QED  BY <1>1, <2>1 DEF Terms, ExecutorAccepts, GovernorAccepts
<1>3. CASE t \in {"cnnouns", "nigi", "cnnounsDescriptorV2", "nigiDescriptorV2"}
  <2>1. Tasks[t].terms = Terms(172800, 26585, 19938, 1, 1000, 1500)
    BY <1>1, <1>3 DEF Tasks, Task, cnnouns_terms, nigi_terms
  <2> QED  BY <1>1, <2>1 DEF Terms, ExecutorAccepts, GovernorAccepts
<1>4. CASE t = "runLocal"
  <2>1. Tasks[t].terms = Terms(172800, 17280, 1, 1, 1000, 4000)
    BY <1>1, <1>4 DEF Tasks, Task, local_terms
  <2> QED  BY <1>1, <2>1 DEF Terms, ExecutorAccepts, GovernorAccepts
<1>5. CASE t \in {"shortTimes", "shortTimesDaov1"}
  <2>1. Tasks[t].tested = TRUE
    BY <1>5 DEF Tasks, Task
  <2> QED  BY <2>1
<1> QED  BY <1>2, <1>3, <1>4, <1>5, TaskNamesAre DEF FullTasks, DescriptorTasks

\* The full tasks that wait for their transactions are those of cnnouns and nigi.
LEMMA TasksThatWait ==
  ASSUME NEW t \in FullTasks, Tasks[t].waits
  PROVE  t \in {"cnnouns", "nigi"}
<1> SUFFICES ASSUME t \notin {"cnnouns", "nigi"}
             PROVE  FALSE
  OBVIOUS
<1>1. Tasks[t].waits = FALSE
  BY DEF Tasks, Task, FullTasks
<1> QED  BY <1>1

\* The tasks of cnnouns upload pages, the others identifiers.
UploadsBy(t) == IF t \in {"cnnouns", "cnnounsDescriptorV2"} THEN "page" ELSE "put"

\* What the configuration of a task does.
Configured(t, flags, q) ==
  /\ IsConfiguration(q, UploadsBy(t))
  /\ t \in DescriptorTasks => \A i \in 1 .. Len(q) :
       /\ q[i].do # "unpause"
       /\ q[i].do = "own" => q[i].what = "NounsDescriptorV2"
  /\ t = "cnnouns" => HandsOver(q, Ownable \ {"NounsAuctionHouseProxy"})
  /\ t = "nigi" => \A i \in 1 .. Len(q) : q[i].do # "unpause"
  /\ t = "cnnouns" /\ ~flags.startAuction => \A i \in 1 .. Len(q) : q[i].do # "unpause"

\* Every task, with any flags, has such a configuration.
LEMMA ConfigurationOf ==
  ASSUME NEW t \in DOMAIN Tasks, NEW flags \in FlagSets
  PROVE  Configured(t, flags, Tasks[t].configuration[flags])
<1> SUFFICES ASSUME NEW q, q = Tasks[t].configuration[flags]
             PROVE  Configured(t, flags, q)
  OBVIOUS
<1>1. flags.startAuction \in BOOLEAN /\ flags.updateConfigs \in BOOLEAN
  BY DeploymentAssumption
<1>2. ASSUME NEW from, NEW governor,
             q = Uploads(UploadsBy(t), from) \o Handover \o StartAuction(flags.startAuction)
                   \o When(flags.updateConfigs, <<Configs(governor)>>),
             t \in FullTasks \ {"nigi"}
      PROVE  Configured(t, flags, q)
  <2>1. PICK do \in {"put", "page"} : do = UploadsBy(t)
    BY DEF UploadsBy
  <2>2. PICK start \in BOOLEAN, update \in BOOLEAN :
          start = flags.startAuction /\ update = flags.updateConfigs
    BY <1>1
  <2>3. q = Uploads(do, from) \o Handover \o StartAuction(start)
              \o When(update, <<Configs(governor)>>)
    BY <1>2, <2>1, <2>2
  <2>4. do \in {"put", "page"} /\ start \in BOOLEAN /\ update \in BOOLEAN
    BY <2>1, <2>2
  <2>5. /\ IsConfiguration(q, do)
        /\ HandsOver(q, Ownable \ {"NounsAuctionHouseProxy"})
        /\ ~start => \A i \in 1 .. Len(q) : q[i].do # "unpause"
    <3>1. LET made == Uploads(do, from) \o Handover \o StartAuction(start)
                        \o When(update, <<Configs(governor)>>)
          IN  /\ IsConfiguration(made, do)
              /\ HandsOver(made, Ownable \ {"NounsAuctionHouseProxy"})
              /\ ~start => \A i \in 1 .. Len(made) : made[i].do # "unpause"
      BY ONLY <2>4, HandedConfiguration
    <3> QED  BY ONLY <2>3, <3>1
  <2> QED  BY <1>2, <2>1, <2>2, <2>5 DEF Configured, FullTasks, DescriptorTasks
<1>3. CASE t = "deployAndConfigure"
  <2>1. q = Uploads("put", "backDecorations") \o Handover \o StartAuction(flags.startAuction)
              \o When(flags.updateConfigs, <<Configs("NounsDAOProxy")>>)
    BY <1>3 DEF Tasks, Task, deployAndConfigure, populateDescriptor
  <2> QED  BY <1>2, <1>3, <2>1 DEF FullTasks, UploadsBy
<1>4. CASE t = "shortTimes"
  <2>1. q = Uploads("put", "backDecorations") \o Handover \o StartAuction(flags.startAuction)
              \o When(flags.updateConfigs, <<Configs("NounsDAOProxyV2")>>)
    BY <1>4 DEF Tasks, Task, shortTimes_configure, populateDescriptor
  <2> QED  BY <1>2, <1>4, <2>1 DEF FullTasks, UploadsBy
<1>5. CASE t = "shortTimesDaov1"
  <2>1. q = Uploads("put", "backDecorations") \o Handover \o StartAuction(flags.startAuction)
              \o When(flags.updateConfigs, <<Configs("NounsDAOProxy")>>)
    BY <1>5 DEF Tasks, Task, shortTimesDaov1_configure, populateDescriptor
  <2> QED  BY <1>2, <1>5, <2>1 DEF FullTasks, UploadsBy
<1>6. CASE t = "cnnouns"
  <2>1. q = Uploads("page", "backgroundDecorations") \o Handover \o StartAuction(flags.startAuction)
              \o When(flags.updateConfigs, <<Configs("NounsDAOProxyV2")>>)
    BY <1>6 DEF Tasks, Task, cnnouns_configure, cnnouns_populateDescriptor
  <2> QED  BY <1>2, <1>6, <2>1 DEF FullTasks, UploadsBy
<1>7. CASE t = "nigi"
  <2>1. q = Uploads("put", "backDecorations") \o When(flags.updateConfigs, <<Configs("NounsDAOProxyV2")>>)
    BY <1>7 DEF Tasks, Task, nigi_configure, nigi_populateDescriptor
  <2>2. /\ IsConfiguration(q, "put")
        /\ \A i \in 1 .. Len(q) : q[i].do \notin {"own", "unpause"}
    BY <1>1, <2>1, UploadingConfiguration
  <2> QED  BY <1>7, <2>2 DEF Configured, DescriptorTasks, UploadsBy
<1>8. CASE t = "runLocal"
  <2>1. q = Uploads("put", "backDecorations") \o <<Unpause>> \o Handover
              \o <<Own("NounsAuctionHouseProxy")>>
    BY <1>8 DEF Tasks, Task, runLocal, populateDescriptor
  <2>2. IsConfiguration(q, "put")
    BY <2>1, LocalConfiguration
  <2> QED  BY <1>8, <2>2 DEF Configured, DescriptorTasks, UploadsBy
<1>9. ASSUME NEW from, q = Uploads(UploadsBy(t), from) \o <<Own("NounsDescriptorV2")>>,
             t \in DescriptorTasks
      PROVE  Configured(t, flags, q)
  <2>1. UploadsBy(t) \in {"put", "page"}
    BY DEF UploadsBy
  <2>2. /\ IsConfiguration(q, UploadsBy(t))
        /\ \A i \in 1 .. Len(q) :
             \/ q[i].do \in {"put", "page"}
             \/ q[i].do = "own" /\ q[i].what = "NounsDescriptorV2"
    BY <1>9, <2>1, DescriptorConfiguration
  <2> QED  BY <1>9, <2>2 DEF Configured, DescriptorTasks
<1>10. CASE t = "descriptorV2"
  <2>1. q = Uploads("put", "backDecorations") \o <<Own("NounsDescriptorV2")>>
    BY <1>10 DEF Tasks, Task, descriptorV2_configure, populateDescriptor
  <2> QED  BY <1>9, <1>10, <2>1 DEF DescriptorTasks, UploadsBy
<1>11. CASE t = "cnnounsDescriptorV2"
  <2>1. q = Uploads("page", "backgroundDecorations") \o <<Own("NounsDescriptorV2")>>
    BY <1>11 DEF Tasks, Task, cnnounsDescriptorV2_configure, cnnouns_populateDescriptor
  <2> QED  BY <1>9, <1>11, <2>1 DEF DescriptorTasks, UploadsBy
<1>12. CASE t = "ci"
  <2>1. q = <<LogContracts>>
    BY <1>12 DEF Tasks, Task, deployCi
  <2>2. Len(q) = 1 /\ q[1].do = "log"
    <3>1. Len(q) = 1 /\ q[1] = LogContracts
      BY <2>1
    <3>2. \A do, what, from : Step(do, what, from).do = do
      BY DEF Step
    <3>3. LogContracts.do = "log"
      BY <3>2, Zenon DEF LogContracts
    <3> QED  BY <3>1, <3>3
  <2>3. IsConfiguration(q, UploadsBy(t))
    BY <2>2 DEF IsConfiguration
  <2> QED  BY <1>12, <2>3 DEF Configured, DescriptorTasks
<1>13. CASE t = "nigiDescriptorV2"
  <2>1. q = <<Unregistered("nigi-populate-descriptor"), Own("NounsDescriptorV2")>>
    BY <1>13 DEF Tasks, Task, nigiDescriptorV2_configure
  <2>2. Len(q) = 2 /\ q[1].do = "run" /\ q[2].do = "own" /\ q[2].what = "NounsDescriptorV2"
    <3>1. /\ Len(q) = 2 /\ q[1] = Unregistered("nigi-populate-descriptor")
          /\ q[2] = Own("NounsDescriptorV2")
      BY <2>1
    <3>2. \A do, what, from : Step(do, what, from).do = do
      BY DEF Step
    <3>3. \A task : Unregistered(task).do = "run"
      BY <3>2, Zenon DEF Unregistered
    <3> QED  BY <3>1, <3>3, StepFields
  <2>3. \A i \in 1 .. 2 : i = 1 \/ i = 2
    OBVIOUS
  <2>4. IsConfiguration(q, UploadsBy(t))
    BY <2>2, <2>3 DEF IsConfiguration, Ownable
  <2> QED  BY <1>13, <2>2, <2>3, <2>4 DEF Configured, DescriptorTasks
<1> QED
  BY <1>3, <1>4, <1>5, <1>6, <1>7, <1>8, <1>10, <1>11, <1>12, <1>13, TaskNamesAre
     DEF FullTasks, DescriptorTasks

-----------------------------------------------------------------------------
(* The chain and the systems on it.                                        *)

\* The contracts there are, in the order their transactions were mined.
IsChain(ch) == ch \in Seq({ch[i] : i \in DOMAIN ch})

\* What was sent stays where it is.
Grows(ch, later) == DOMAIN ch \subseteq DOMAIN later /\ \A a \in DOMAIN ch : later[a] = ch[a]

\* Addresses are places of the chain.
LEMMA ChainIsASequence ==
  ASSUME NEW ch, IsChain(ch)
  PROVE  Len(ch) \in Nat /\ DOMAIN ch = 1 .. Len(ch)
BY DEF IsChain

\* A transaction adds a place and leaves the others.
LEMMA Appended ==
  ASSUME NEW ch, IsChain(ch), NEW entry
  PROVE  LET later == Append(ch, entry)
         IN /\ IsChain(later) /\ Len(later) = Len(ch) + 1 /\ Grows(ch, later)
            /\ later[Len(ch) + 1] = entry
<1> DEFINE later == Append(ch, entry)
           S == {ch[i] : i \in DOMAIN ch} \cup {entry}
<1>1. ch \in Seq(S) /\ entry \in S /\ Len(ch) \in Nat /\ DOMAIN ch = 1 .. Len(ch)
  <2>1. {ch[i] : i \in DOMAIN ch} \subseteq S /\ entry \in S
    OBVIOUS
  <2>2. ch \in Seq({ch[i] : i \in DOMAIN ch})
    BY DEF IsChain
  <2> DEFINE R == {ch[i] : i \in DOMAIN ch}
  <2> HIDE DEF S
  <2>3. ch \in Seq(S)
    BY <2>1, <2>2
  <2> QED  BY <2>1, <2>3, ChainIsASequence
<1> HIDE DEF S
<1>2. /\ later \in Seq(S) /\ Len(later) = Len(ch) + 1
      /\ \A i \in 1 .. Len(ch) : later[i] = ch[i]
      /\ later[Len(ch) + 1] = entry
  BY <1>1, AppendProperties
<1> HIDE DEF later
<1>3. DOMAIN later = 1 .. Len(ch) + 1
  BY <1>1, <1>2
<1>4. Grows(ch, later)
  BY <1>1, <1>2, <1>3 DEF Grows
<1>5. IsChain(later)
  <2> DEFINE T == {later[i] : i \in DOMAIN later}
             n == Len(ch) + 1
  <2>1. n \in Nat /\ later = [i \in 1 .. n |-> later[i]]
    BY <1>1, <1>2
  <2>2. \A i \in 1 .. n : later[i] \in T
    BY <1>3
  <2> HIDE DEF T, n
  <2>3. later \in [1 .. n -> T]
    BY <2>1, <2>2
  <2>4. later \in Seq(T)
    BY <2>1, <2>3, SeqDef
  <2> QED  BY <2>4 DEF IsChain, T
<1> QED  BY <1>2, <1>4, <1>5 DEF later

\* A contract of this name is at this address.
Named(ch, a, name) == a \in DOMAIN ch /\ ch[a].name = name

\* A descriptor whose art accepts it.
ArtFits(ch, d) ==
  /\ Named(ch, d, "NounsDescriptorV2") /\ Named(ch, ch[d].args.art, "NounsArt")
  /\ ch[ch[d].args.art].args.descriptor = d

\* What an executor leads to, from one constructor argument to the next.
GovernorFor(ch, e) == ch[e].args.governor
TokenFor(ch, e) == ch[GovernorFor(ch, e)].args.nouns
HouseFor(ch, e) == ch[TokenFor(ch, e)].args.minter
DescriptorFor(ch, e) == ch[TokenFor(ch, e)].args.descriptor
AdminFor(ch, e) == ch[HouseFor(ch, e)].args.proxyAdmin

\* An executor and the system it executes for.
Wired(ch, e) ==
  /\ e \in DOMAIN ch
  /\ GovernorFor(ch, e) \in DOMAIN ch /\ ch[GovernorFor(ch, e)].name \in Governors
  /\ ch[GovernorFor(ch, e)].args.timelock = e
  /\ Named(ch, TokenFor(ch, e), "NounsToken")
  /\ Named(ch, HouseFor(ch, e), "NounsAuctionHouseProxy")
  /\ ch[HouseFor(ch, e)].args.nouns = TokenFor(ch, e)
  /\ ArtFits(ch, DescriptorFor(ch, e))
  /\ Named(ch, AdminFor(ch, e), "NounsAuctionHouseProxyAdmin")
\* What an executor owns of its system.
Belongs(ch, a, e) ==
  a \in {TokenFor(ch, e), HouseFor(ch, e), DescriptorFor(ch, e), AdminFor(ch, e)}

\* An art that fits keeps fitting.
LEMMA ArtStays ==
  ASSUME NEW ch, NEW later, Grows(ch, later), NEW d, ArtFits(ch, d)
  PROVE  ArtFits(later, d) /\ later[d].args.art = ch[d].args.art
BY DEF ArtFits, Named, Grows

\* A system stays wired, whatever is sent later.
LEMMA WiredStays ==
  ASSUME NEW ch, NEW later, Grows(ch, later), NEW e, NEW a, Wired(ch, e), Belongs(ch, a, e)
  PROVE  Wired(later, e) /\ Belongs(later, a, e)
<1>1. later[e] = ch[e] /\ GovernorFor(later, e) = GovernorFor(ch, e)
  BY DEF Grows, Wired, GovernorFor
<1>2. /\ later[GovernorFor(ch, e)] = ch[GovernorFor(ch, e)]
      /\ TokenFor(later, e) = TokenFor(ch, e)
  BY <1>1 DEF Grows, Wired, TokenFor
<1>3. /\ later[TokenFor(ch, e)] = ch[TokenFor(ch, e)]
      /\ HouseFor(later, e) = HouseFor(ch, e) /\ DescriptorFor(later, e) = DescriptorFor(ch, e)
  BY <1>2 DEF Grows, Wired, HouseFor, DescriptorFor, Named
<1>4. /\ later[HouseFor(ch, e)] = ch[HouseFor(ch, e)]
      /\ AdminFor(later, e) = AdminFor(ch, e)
  BY <1>3 DEF Grows, Wired, AdminFor, Named
<1>5. ArtFits(later, DescriptorFor(later, e))
  BY <1>3, ArtStays DEF Wired
<1>6. Wired(later, e)
  BY <1>1, <1>2, <1>3, <1>4, <1>5 DEF Wired, Named, Grows
<1> QED  BY <1>2, <1>3, <1>4, <1>6 DEF Belongs

-----------------------------------------------------------------------------
(* What a run has sent.                                                    *)

\* The value of an argument: an address computed ahead, or the address of what was sent.
Resolved(arg, dep, base) == IF arg.ahead THEN base + arg.offset + 1 ELSE dep[arg.of]

\* The two kinds of arguments.
LEMMA ResolvedBy ==
  ASSUME NEW dep, NEW base
  PROVE  /\ \A offset : Resolved(At(offset), dep, base) = base + offset + 1
         /\ \A name : Resolved(Of(name), dep, base) = dep[name]
<1>1. \A offset : At(offset).ahead /\ At(offset).offset = offset
  BY DEF At
<1>2. \A name : ~Of(name).ahead /\ Of(name).of = name
  BY DEF Of
<1> QED  BY <1>1, <1>2 DEF Resolved

\* The entry of the chain that the contract at place i of a list became.
EntryOf(c, i, dep, base, ch) ==
  LET a == dep[c[i].name]
  IN /\ a \in DOMAIN ch /\ base + i <= a
     /\ ch[a].name = c[i].name
     /\ \A role \in DOMAIN c[i].args :
          ch[a].args[role] = Resolved(c[i].args[role], dep, base)

\* The first n contracts of a list were sent, in this order.
SentTo(c, n, dep, base, ch) ==
  /\ n \in 0 .. Len(c)
  /\ DOMAIN dep = {c[i].name : i \in 1 .. n}
  /\ \A i \in 1 .. n : EntryOf(c, i, dep, base, ch)
  /\ \A i, j \in 1 .. n : i < j => dep[c[i].name] + (j - i) <= dep[c[j].name]

\* What a contract was sent with, by its name.
LEMMA SentWith ==
  ASSUME NEW c, NEW i, NEW dep, NEW base, NEW ch, EntryOf(c, i, dep, base, ch),
         NEW name, c[i].name = name
  PROVE  /\ base + i <= dep[name]
         /\ \A role \in DOMAIN c[i].args :
              ch[dep[name]].args[role] = Resolved(c[i].args[role], dep, base)
BY DEF EntryOf

\* A run begins with nothing sent.
LEMMA NothingSent ==
  ASSUME NEW c, IsList(c), NEW base, NEW ch
  PROVE  SentTo(c, 0, [name \in {} |-> Nowhere], base, ch)
BY DEF SentTo, IsList

\* What was sent stays where it is.
LEMMA SentStays ==
  ASSUME NEW c, NEW n, NEW dep, NEW base, NEW ch, NEW later, Grows(ch, later),
         SentTo(c, n, dep, base, ch)
  PROVE  SentTo(c, n, dep, base, later)
BY DEF SentTo, EntryOf, Grows

\* A contract that was sent is at a place of the chain.
LEMMA PlaceOfSent ==
  ASSUME NEW c, NEW n, NEW dep, NEW base, NEW ch, IsChain(ch), SentTo(c, n, dep, base, ch),
         NEW name \in DOMAIN dep
  PROVE  Named(ch, dep[name], name) /\ dep[name] \in Nat /\ dep[name] > 0
<1>1. PICK i \in 1 .. n : name = c[i].name
  BY DEF SentTo
<1>2. EntryOf(c, i, dep, base, ch)
  BY DEF SentTo
<1> QED  BY <1>1, <1>2, ChainIsASequence DEF EntryOf, Named

\* Addresses of different contracts differ.
LEMMA PlacesApart ==
  ASSUME NEW c, IsList(c), NEW n, NEW dep, NEW base \in Nat, NEW ch, IsChain(ch),
         SentTo(c, n, dep, base, ch), NEW x \in DOMAIN dep, NEW y \in DOMAIN dep, x # y
  PROVE  dep[x] # dep[y]
<1>1. PICK i \in 1 .. n : x = c[i].name
  BY DEF SentTo
<1>2. PICK j \in 1 .. n : y = c[j].name
  BY DEF SentTo
<1>3. i # j /\ i \in Nat /\ j \in Nat
  BY <1>1, <1>2 DEF SentTo, IsList
<1>4. dep[x] \in Nat /\ dep[y] \in Nat
  BY PlaceOfSent
<1>5. CASE i < j
  <2>1. dep[x] + (j - i) <= dep[y]
    BY <1>1, <1>2, <1>5 DEF SentTo
  <2> QED  BY <1>3, <1>4, <1>5, <2>1
<1>6. CASE j < i
  <2>1. dep[y] + (i - j) <= dep[x]
    BY <1>1, <1>2, <1>6 DEF SentTo
  <2> QED  BY <1>3, <1>4, <1>6, <2>1
<1> QED  BY <1>3, <1>5, <1>6

\* The next contract of the list is sent.
LEMMA SendsNext ==
  ASSUME NEW c, IsList(c), NEW n, NEW dep, NEW base \in Nat, NEW ch, IsChain(ch),
         base <= Len(ch), SentTo(c, n, dep, base, ch), n < Len(c),
         NEW args, DOMAIN args = DOMAIN c[n + 1].args,
         \A role \in DOMAIN args : args[role] = Resolved(c[n + 1].args[role], dep, base)
  PROVE  SentTo(c, n + 1, Assigned(dep, c[n + 1].name, Len(ch) + 1), base,
                Append(ch, [name |-> c[n + 1].name, args |-> args]))
<1> DEFINE entry == [name |-> c[n + 1].name, args |-> args]
           later == Append(ch, entry)
           now == Assigned(dep, c[n + 1].name, Len(ch) + 1)
           m == n + 1
<1>1. n \in Nat /\ m \in 1 .. Len(c) /\ Len(c) \in Nat /\ Len(ch) \in Nat
      /\ DOMAIN ch = 1 .. Len(ch)
  BY ChainIsASequence DEF SentTo, IsList
<1>2. /\ IsChain(later) /\ Len(later) = Len(ch) + 1 /\ Grows(ch, later)
      /\ later[Len(ch) + 1] = entry
  BY Appended
<1>3. entry.name = c[m].name /\ entry.args = args
  OBVIOUS
<1>4. /\ DOMAIN now = DOMAIN dep \cup {c[m].name} /\ now[c[m].name] = Len(ch) + 1
      /\ \A name \in DOMAIN dep : name # c[m].name => now[name] = dep[name]
  BY DEF Assigned
<1>5. \A i \in 1 .. n : i \in 1 .. Len(c) /\ i # m
  BY <1>1
<1>6. \A i \in 1 .. n : c[i].name \in DOMAIN dep /\ c[i].name # c[m].name
  BY <1>1, <1>5 DEF SentTo, IsList
<1>7. \A i \in 1 .. n : now[c[i].name] = dep[c[i].name]
  BY <1>4, <1>6
<1>8. \A i \in 1 .. m : i \in 1 .. n \/ i = m
  BY <1>1
<1> HIDE DEF entry, later, now, m
<1>9. \A i \in 1 .. m : \A role \in DOMAIN c[i].args :
        /\ Resolved(c[i].args[role], now, base) = Resolved(c[i].args[role], dep, base)
  <2> SUFFICES ASSUME NEW i \in 1 .. m, NEW role \in DOMAIN c[i].args, ~c[i].args[role].ahead
               PROVE  now[c[i].args[role].of] = dep[c[i].args[role].of]
    BY DEF Resolved
  <2>1. Refers(c, i)
    BY <1>1, <1>5, <1>8 DEF IsList
  <2>2. PICK j \in 1 .. i - 1 : c[i].args[role].of = c[j].name
    BY <2>1 DEF Refers
  <2>3. j \in 1 .. n
    BY <1>1, <1>8 DEF m
  <2> QED  BY <1>7, <2>2, <2>3
<1>10. ASSUME NEW i \in 1 .. m
       PROVE  EntryOf(c, i, now, base, later)
  <2>1. CASE i \in 1 .. n
    <3>1. EntryOf(c, i, dep, base, ch)
      BY <2>1 DEF SentTo
    <3> QED  BY <1>2, <1>7, <1>9, <2>1, <3>1 DEF EntryOf, Grows
  <2>2. CASE i = m
    <3>1. now[c[i].name] = Len(ch) + 1 /\ Len(ch) + 1 \in DOMAIN later
      BY <1>1, <1>2, <1>4, <2>2, ChainIsASequence
    <3>2. base + i <= Len(ch) + 1
      <4>1. CASE n = 0
        BY <1>1, <2>2, <4>1 DEF m
      <4>2. CASE n # 0
        <5>1. n \in 1 .. n
          BY <1>1, <4>2
        <5>2. EntryOf(c, n, dep, base, ch)
          BY <5>1 DEF SentTo
        <5>3. base + n <= Len(ch)
          BY <1>1, <5>2 DEF EntryOf
        <5> QED  BY <1>1, <2>2, <5>3 DEF m
      <4> QED  BY <4>1, <4>2
    <3>3. later[Len(ch) + 1].name = c[i].name /\ later[Len(ch) + 1].args = args
      BY <1>2, <1>3, <2>2
    <3>4. \A role \in DOMAIN c[i].args : args[role] = Resolved(c[i].args[role], dep, base)
      BY <2>2 DEF m
    <3> QED  BY <1>9, <3>1, <3>2, <3>3, <3>4 DEF EntryOf
  <2> QED  BY <1>8, <2>1, <2>2
<1>11. ASSUME NEW i \in 1 .. m, NEW j \in 1 .. m, i < j
       PROVE  now[c[i].name] + (j - i) <= now[c[j].name]
  <2>1. i \in 1 .. n
    BY <1>1, <1>11 DEF m
  <2>2. CASE j \in 1 .. n
    BY <1>7, <1>11, <2>1, <2>2 DEF SentTo
  <2>3. CASE j = m
    <3>1. now[c[j].name] = Len(ch) + 1 /\ now[c[i].name] = dep[c[i].name]
      BY <1>4, <1>7, <2>1, <2>3
    <3>2. n \in 1 .. n
      BY <1>1, <2>1
    <3>3. dep[c[i].name] \in 1 .. Len(ch) /\ dep[c[n].name] \in 1 .. Len(ch)
      BY <1>1, <2>1, <3>2 DEF SentTo, EntryOf
    <3>4. dep[c[i].name] + (n - i) <= dep[c[n].name]
      <4>1. CASE i = n
        BY <3>3, <4>1
      <4>2. CASE i < n
        BY <2>1, <3>2, <4>2 DEF SentTo
      <4> QED  BY <1>1, <2>1, <4>1, <4>2
    <3>5. dep[c[i].name] + (m - i) <= Len(ch) + 1
      BY <1>1, <2>1, <3>3, <3>4 DEF m
    <3> QED  BY <2>3, <3>1, <3>5
  <2> QED  BY <1>8, <2>2, <2>3
<1>12. DOMAIN now = {c[i].name : i \in 1 .. m}
  BY <1>1, <1>4, <1>8 DEF SentTo, m
<1>13. m \in 0 .. Len(c)
  BY <1>1
<1>14. SentTo(c, m, now, base, later)
  BY <1>10, <1>11, <1>12, <1>13 DEF SentTo
<1> QED  BY <1>14 DEF m, now, later, entry

\* An art at the address its descriptor was given accepts it.
LEMMA ArtSent ==
  ASSUME NEW c, IsList(c), NEW n, NEW dep, NEW base \in Nat, NEW ch, IsChain(ch),
         SentTo(c, n, dep, base, ch), NEW p \in 1 .. n, NEW ahead \in Nat, ahead + 1 \in 1 .. n,
         ArtLayout(c, p, ahead + 1, ahead), dep["NounsArt"] = base + ahead + 1
  PROVE  /\ "NounsDescriptorV2" \in DOMAIN dep /\ ArtFits(ch, dep["NounsDescriptorV2"])
         /\ ch[dep["NounsDescriptorV2"]].args.art = dep["NounsArt"]
<1> DEFINE d == dep["NounsDescriptorV2"]
           q == ahead + 1
<1>1. /\ c[p].name = "NounsDescriptorV2" /\ c[q].name = "NounsArt"
      /\ EntryOf(c, p, dep, base, ch) /\ EntryOf(c, q, dep, base, ch)
      /\ {"NounsDescriptorV2", "NounsArt"} \subseteq DOMAIN dep
  BY DEF SentTo, ArtLayout
<1>2. Named(ch, d, "NounsDescriptorV2") /\ Named(ch, dep["NounsArt"], "NounsArt")
  BY <1>1, PlaceOfSent
<1>3. ch[d].args["art"] = Resolved(c[p].args["art"], dep, base)
  BY <1>1 DEF EntryOf, ArtLayout
<1>4. Resolved(c[p].args["art"], dep, base) = base + ahead + 1
  BY ResolvedBy DEF ArtLayout
<1>5. ch[dep["NounsArt"]].args["descriptor"] = Resolved(c[q].args["descriptor"], dep, base)
  BY <1>1 DEF EntryOf, ArtLayout
<1>6. Resolved(c[q].args["descriptor"], dep, base) = d
  BY ResolvedBy DEF ArtLayout
<1> HIDE DEF d, q
<1>7. ch[d].args.art = dep["NounsArt"] /\ ch[dep["NounsArt"]].args.descriptor = d
  BY <1>3, <1>4, <1>5, <1>6
<1>8. ArtFits(ch, d)
  BY <1>2, <1>7 DEF ArtFits
<1> QED  BY <1>1, <1>7, <1>8 DEF d

\* The contracts of a deployment are one system, and the executor of it is its executor.
Assembled(ch, dep, governor) ==
  LET e == dep["NounsDAOExecutor"]
  IN /\ Wired(ch, e) /\ GovernorFor(ch, e) = dep[governor]
     /\ TokenFor(ch, e) = dep["NounsToken"] /\ HouseFor(ch, e) = dep["NounsAuctionHouseProxy"]
     /\ DescriptorFor(ch, e) = dep["NounsDescriptorV2"]
     /\ AdminFor(ch, e) = dep["NounsAuctionHouseProxyAdmin"]
     /\ ch[dep["NounsDescriptorV2"]].args.art = dep["NounsArt"]
     /\ Ownable \cup {"NounsDAOExecutor", "NounsArt", governor} \subseteq DOMAIN dep

\* A full list that was sent, with the house and the governor where the task expects
\* them, is a system.
LEMMA SystemSent ==
  ASSUME NEW t, NEW c, NEW k \in 0 .. 1, NEW governor \in Governors, FullList(t, c, k, governor),
         NEW n, NEW dep, NEW base \in Nat, NEW ch, IsChain(ch), SentTo(c, n, dep, base, ch),
         n >= k + 13, dep[c[k + 10].name] = base + k + 10, dep[c[k + 13].name] = base + k + 13
  PROVE  Assembled(ch, dep, governor)
<1> DEFINE e == dep["NounsDAOExecutor"]
           token == dep["NounsToken"]
           house == dep["NounsAuctionHouseProxy"]
           descriptor == dep["NounsDescriptorV2"]
           admin == dep["NounsAuctionHouseProxyAdmin"]
<1>1. IsList(c) /\ Layout(c, k, k, governor) /\ n \in Nat
  BY DEF FullList, SentTo, IsList
<1>2. \A i \in 1 .. 13 : k + i \in 1 .. n
  BY <1>1
<1>3. \A i \in 1 .. 13 : c[k + i].name \in DOMAIN dep /\ EntryOf(c, k + i, dep, base, ch)
  BY <1>2 DEF SentTo
<1>4. /\ c[k + 3].name = "NounsDescriptorV2" /\ c[k + 5].name = "NounsArt"
      /\ c[k + 7].name = "NounsToken" /\ c[k + 9].name = "NounsAuctionHouseProxyAdmin"
      /\ c[k + 10].name = "NounsAuctionHouseProxy" /\ c[k + 11].name = "NounsDAOExecutor"
      /\ c[k + 13].name = governor
  BY <1>1 DEF Layout, ArtLayout
<1>5. Ownable \cup {"NounsDAOExecutor", "NounsArt", governor} \subseteq DOMAIN dep
  BY <1>3, <1>4 DEF Ownable
<1>6. /\ Named(ch, e, "NounsDAOExecutor") /\ Named(ch, token, "NounsToken")
      /\ Named(ch, house, "NounsAuctionHouseProxy")
      /\ Named(ch, admin, "NounsAuctionHouseProxyAdmin")
      /\ Named(ch, dep[governor], governor)
  BY <1>5, PlaceOfSent DEF Ownable
<1>7. dep["NounsArt"] = base + (k + 4) + 1
  <2>1. base + (k + 5) <= dep["NounsArt"] /\ dep["NounsArt"] \in Nat
    <3>1. EntryOf(c, k + 5, dep, base, ch)
      BY <1>3
    <3>2. base + (k + 5) <= dep["NounsArt"]
      BY ONLY <1>4, <3>1, SentWith
    <3>3. "NounsArt" \in DOMAIN dep
      BY <1>5
    <3>4. dep["NounsArt"] \in Nat
      BY <3>3, PlaceOfSent
    <3> QED  BY <3>2, <3>4
  <2>2. k + 5 \in 1 .. n /\ k + 10 \in 1 .. n /\ k + 5 < k + 10
    BY <1>2
  <2>3. dep[c[k + 5].name] + ((k + 10) - (k + 5)) <= dep[c[k + 10].name]
    BY <2>2 DEF SentTo
  <2> QED  BY <1>4, <2>1, <2>3
<1>8. ArtFits(ch, descriptor) /\ ch[descriptor].args.art = dep["NounsArt"]
  <2>1. ArtLayout(c, k + 3, (k + 4) + 1, k + 4)
    <3>1. (k + 4) + 1 = k + 5
      OBVIOUS
    <3> QED  BY <1>1, <3>1 DEF Layout
  <2>2. k + 3 \in 1 .. n /\ k + 4 \in Nat /\ (k + 4) + 1 \in 1 .. n
    BY <1>2
  <2> QED  BY <1>1, <1>7, <2>1, <2>2, ArtSent
<1>9. GovernorFor(ch, e) = dep[governor]
  <2>1. ch[e].args["governor"] = Resolved(c[k + 11].args["governor"], dep, base)
    <3>1. EntryOf(c, k + 11, dep, base, ch)
      BY <1>3
    <3>2. "governor" \in DOMAIN c[k + 11].args
      BY <1>1 DEF Layout
    <3> QED  BY ONLY <1>4, <3>1, <3>2, SentWith
  <2>2. Resolved(c[k + 11].args["governor"], dep, base) = base + (k + 12) + 1
    <3>1. c[k + 11].args["governor"] = At(k + 12)
      BY <1>1 DEF Layout
    <3> QED  BY <3>1, ResolvedBy
  <2>3. base + (k + 12) + 1 = base + k + 13
    OBVIOUS
  <2> QED  BY <1>4, <2>1, <2>2, <2>3 DEF GovernorFor
<1>10. ch[dep[governor]].args.timelock = e /\ ch[dep[governor]].args.nouns = token
  <2>1. /\ ch[dep[governor]].args["timelock"] = Resolved(c[k + 13].args["timelock"], dep, base)
        /\ ch[dep[governor]].args["nouns"] = Resolved(c[k + 13].args["nouns"], dep, base)
    <3>1. EntryOf(c, k + 13, dep, base, ch)
      BY <1>3
    <3>2. {"timelock", "nouns"} \subseteq DOMAIN c[k + 13].args
      BY <1>1 DEF Layout
    <3> QED  BY ONLY <1>4, <3>1, <3>2, SentWith
  <2>2. /\ Resolved(c[k + 13].args["timelock"], dep, base) = e
        /\ Resolved(c[k + 13].args["nouns"], dep, base) = token
    <3>1. /\ c[k + 13].args["timelock"] = Of("NounsDAOExecutor")
          /\ c[k + 13].args["nouns"] = Of("NounsToken")
      BY <1>1 DEF Layout
    <3> QED  BY <3>1, ResolvedBy
  <2> QED  BY <2>1, <2>2
<1>11. ch[token].args.minter = house /\ ch[token].args.descriptor = descriptor
  <2>1. /\ ch[token].args["minter"] = Resolved(c[k + 7].args["minter"], dep, base)
        /\ ch[token].args["descriptor"] = Resolved(c[k + 7].args["descriptor"], dep, base)
    <3>1. EntryOf(c, k + 7, dep, base, ch)
      BY <1>3
    <3>2. {"minter", "descriptor"} \subseteq DOMAIN c[k + 7].args
      BY <1>1 DEF Layout
    <3> QED  BY ONLY <1>4, <3>1, <3>2, SentWith
  <2>2. /\ Resolved(c[k + 7].args["minter"], dep, base) = base + (k + 9) + 1
        /\ Resolved(c[k + 7].args["descriptor"], dep, base) = descriptor
    <3>1. /\ c[k + 7].args["minter"] = At(k + 9)
          /\ c[k + 7].args["descriptor"] = Of("NounsDescriptorV2")
      BY <1>1 DEF Layout
    <3> QED  BY <3>1, ResolvedBy
  <2>3. base + (k + 9) + 1 = base + k + 10
    OBVIOUS
  <2> QED  BY <1>4, <2>1, <2>2, <2>3
<1>12. ch[house].args.nouns = token /\ ch[house].args.proxyAdmin = admin
  <2>1. /\ ch[house].args["nouns"] = Resolved(c[k + 10].args["nouns"], dep, base)
        /\ ch[house].args["proxyAdmin"] = Resolved(c[k + 10].args["proxyAdmin"], dep, base)
    <3>1. EntryOf(c, k + 10, dep, base, ch)
      BY <1>3
    <3>2. {"nouns", "proxyAdmin"} \subseteq DOMAIN c[k + 10].args
      BY <1>1 DEF Layout
    <3> QED  BY ONLY <1>4, <3>1, <3>2, SentWith
  <2>2. /\ Resolved(c[k + 10].args["nouns"], dep, base) = token
        /\ Resolved(c[k + 10].args["proxyAdmin"], dep, base) = admin
    <3>1. /\ c[k + 10].args["nouns"] = Of("NounsToken")
          /\ c[k + 10].args["proxyAdmin"] = Of("NounsAuctionHouseProxyAdmin")
      BY <1>1 DEF Layout
    <3> QED  BY <3>1, ResolvedBy
  <2> QED  BY <2>1, <2>2
<1> HIDE DEF e, token, house, descriptor, admin
<1>13. /\ TokenFor(ch, e) = token /\ HouseFor(ch, e) = house
       /\ DescriptorFor(ch, e) = descriptor /\ AdminFor(ch, e) = admin
  BY <1>9, <1>10, <1>11, <1>12 DEF TokenFor, HouseFor, DescriptorFor, AdminFor
<1>14. Wired(ch, e)
  BY <1>6, <1>8, <1>9, <1>10, <1>12, <1>13 DEF Wired, Named
<1> QED
  BY <1>5, <1>8, <1>9, <1>13, <1>14 DEF Assembled, e, token, house, descriptor, admin

-----------------------------------------------------------------------------
(* The inductive invariant.                                                *)

\* The chain and the owners.
ChainInv ==
  /\ IsChain(chain)
  /\ ownedBy \in [DOMAIN ownedBy -> Int] /\ DOMAIN ownedBy \subseteq DOMAIN chain

\* The phases of a run.
Phases == {"idle", "deploying", "configuring", "done", "failed"}

\* A run: its task, the nonce it began at, the step it is at.  On the local chain nobody else
\* sends until it failed.
RunInv ==
  /\ DOMAIN run = {"task", "flags", "weth", "terms", "base", "step", "deployment"}
  /\ phase \in Phases /\ disturbed \in Nat
  /\ phase # "idle" =>
       /\ run.task \in DOMAIN Tasks /\ run.flags \in FlagSets
       /\ run.base \in Nat /\ run.base <= Len(chain) /\ run.step \in Nat \ {0}
       /\ ~run.flags.shortPeriod => run.terms = TheTask.terms
       /\ run.task = "runLocal" /\ phase # "failed" => disturbed = 0

\* The contracts are where the task computes them.
AtPlace(i) == Deployed(TheTask.contracts[i].name) = run.base + i

\* The first n contracts of the task are on the chain.  Those with a validated address are
\* where it was computed, unless the run stopped there; undisturbed, all of them are.
Sent(n) ==
  /\ SentTo(TheTask.contracts, n, run.deployment, run.base, chain)
  /\ phase = "deploying" => n = run.step - 1
  /\ phase \in {"configuring", "done"} => n = Len(TheTask.contracts)
  /\ ~(phase = "failed" /\ why = "moved") =>
       \A i \in 1 .. n : TheTask.contracts[i].validated => AtPlace(i)
  /\ disturbed = 0 => \A i \in 1 .. n : AtPlace(i)
  /\ disturbed = 0 /\ phase = "deploying" => Len(chain) = run.base + n
SentInv == phase # "idle" => \E n \in Nat : Sent(n)

\* Until a contract is handed over, its deployer owns it.
HandedYet(name) ==
  phase = "configuring" /\
    \E i \in 1 .. Len(Configuration) :
      i < run.step /\ Configuration[i].do = "own" /\ Configuration[i].what = name
HeldInv ==
  phase \in {"deploying", "configuring"} =>
    \A name \in Ownable \cap DOMAIN run.deployment :
      /\ Deployed(name) \in DOMAIN ownedBy
      /\ ~HandedYet(name) => ownedBy[Deployed(name)] = Deployer

\* Art of which every part the seeder picks from was counted.
FullArt(ch, im, d) ==
  ArtFits(ch, d) /\ CountedParts \subseteq {i[2] : i \in {j \in im : j[1] = ch[d].args.art}}

\* What a step that was done has left behind.
StepLeft(step, dep, executor, ch, owned, im, au, mi) ==
  /\ step.do = "put" =>
       /\ dep["NounsDescriptorV2"] \in DOMAIN ch
       /\ <<ch[dep["NounsDescriptorV2"]].args.art, step.what, step.from>> \in im
  /\ step.do = "own" =>
       dep[step.what] \in DOMAIN owned /\ owned[dep[step.what]] = executor
  /\ step.do = "unpause" =>
       \/ dep["NounsToken"] \in mi
       \/ dep["NounsAuctionHouseProxy"] \in au /\ FullArt(ch, im, dep["NounsDescriptorV2"])
\* The steps of the configuration before the current one are done.
StepDone(i) ==
  StepLeft(Configuration[i], run.deployment, TheExecutor, chain, ownedBy, images, auctions, minted)
StepsInv ==
  /\ phase \in {"configuring", "done"} =>
       \A i \in 1 .. Len(Configuration) : i < run.step => StepDone(i)
  /\ phase = "done" => run.step > Len(Configuration)

\* What an executor owns belongs to the system it is wired into.
HandedInv ==
  \A a \in DOMAIN ownedBy : ownedBy[a] > 0 =>
    Wired(chain, ownedBy[a]) /\ Belongs(chain, a, ownedBy[a])

\* An auction on complete art, or one the deployer may mint for instead.
RunningHouse(ch, im, au, mi, a) ==
  \/ ch[a].args.nouns \in mi
  \/ a \in au /\ FullArt(ch, im, ch[ch[a].args.nouns].args.descriptor)

\* The model's words for the same facts.
LEMMA WorksIsFitting ==
  /\ \A d : Works(d) <=> ArtFits(chain, d)
  /\ \A token : CanMint(token) <=> FullArt(chain, images, chain[token].args.descriptor)
<1>1. \A d : Works(d) <=> ArtFits(chain, d)
  <2>1. \A a : NameAt(a) = "NounsDescriptorV2" <=> Named(chain, a, "NounsDescriptorV2")
    BY DEF NameAt, ChainAddresses, Named
  <2>2. \A a : NameAt(a) = "NounsArt" <=> Named(chain, a, "NounsArt")
    BY DEF NameAt, ChainAddresses, Named
  <2> QED  BY <2>1, <2>2 DEF Works, ArtFits, ArtOf
<1>2. \A token : CanMint(token) <=> FullArt(chain, images, chain[token].args.descriptor)
  BY <1>1 DEF CanMint, CountedIn, FullArt, ArtOf
<1> QED  BY <1>1, <1>2

\* A house that was handed over runs.
HousesRun ==
  \A a \in DOMAIN ownedBy : ownedBy[a] > 0 /\ Named(chain, a, "NounsAuctionHouseProxy") =>
    RunningHouse(chain, images, auctions, minted, a)

\* The inductive invariant.
DeploymentInv ==
  /\ ChainInv /\ RunInv /\ SentInv /\ HeldInv /\ StepsInv /\ HandedInv /\ HousesRun
  /\ FailsOnlyWhenDisturbed

\* What was seen mined is on the chain.
ConfirmedInv == confirmed \in Nat /\ confirmed <= Len(chain)

\* The property, in these words.
LEMMA RunsSaid == HousesRun <=> AuctionHandedOverRuns
<1>1. \A a : NameAt(a) = "NounsAuctionHouseProxy" <=> Named(chain, a, "NounsAuctionHouseProxy")
  BY DEF NameAt, ChainAddresses, Named
<1> QED  BY <1>1, WorksIsFitting DEF AuctionHandedOverRuns, HousesRun, RunningHouse

\* Complete art stays complete.
LEMMA FullArtStays ==
  ASSUME NEW ch, NEW later, Grows(ch, later), NEW im, NEW more, im \subseteq more,
         NEW d, FullArt(ch, im, d)
  PROVE  FullArt(later, more, d)
<1>1. ArtFits(later, d) /\ later[d].args.art = ch[d].args.art
  BY ArtStays DEF FullArt
<1> DEFINE art == ch[d].args.art
<1>2. CountedParts \subseteq {i[2] : i \in {j \in im : j[1] = art}}
  BY DEF FullArt
<1> HIDE DEF art
<1>3. CountedParts \subseteq {i[2] : i \in {j \in more : j[1] = art}}
  BY <1>2
<1> QED  BY <1>1, <1>3 DEF FullArt, art

\* A house that runs keeps running: its art is never taken away.
LEMMA RunningStays ==
  ASSUME NEW ch, NEW later, Grows(ch, later), NEW im, NEW more, im \subseteq more,
         NEW au, NEW au2, au \subseteq au2,
         NEW mi, NEW mi2, mi \subseteq mi2,
         NEW e, NEW a, Wired(ch, e), Belongs(ch, a, e), Named(ch, a, "NounsAuctionHouseProxy"),
         RunningHouse(ch, im, au, mi, a)
  PROVE  RunningHouse(later, more, au2, mi2, a)
<1>1. a = HouseFor(ch, e)
  BY DEF Belongs, Wired, Named, ArtFits
<1>2. /\ ch[a].args.nouns = TokenFor(ch, e) /\ TokenFor(ch, e) \in DOMAIN ch
  BY <1>1 DEF Wired, Named
<1>3. later[a] = ch[a] /\ later[TokenFor(ch, e)] = ch[TokenFor(ch, e)]
  BY <1>2 DEF Named, Grows
<1>4. CASE ch[a].args.nouns \in mi
  BY <1>3, <1>4 DEF RunningHouse
<1>5. CASE a \in au /\ FullArt(ch, im, ch[ch[a].args.nouns].args.descriptor)
  <2>1. FullArt(later, more, ch[ch[a].args.nouns].args.descriptor)
    BY <1>5, FullArtStays
  <2> QED  BY <1>2, <1>3, <1>5, <2>1 DEF RunningHouse
<1> QED  BY <1>4, <1>5 DEF RunningHouse

-----------------------------------------------------------------------------
(* The system a run deployed.                                              *)

\* What this run deployed is one system.
SystemOf(governor) ==
  /\ Assembled(chain, run.deployment, governor)
  /\ run.task \in {"cnnouns", "nigi"} => governor = "NounsDAOProxyV2"

\* Only those two are completed by hand.
LEMMA ByHandIsFull ==
  ASSUME RunInv, SentInv, ByHand
  PROVE  run.task \in {"cnnouns", "nigi"}
<1>1. phase # "idle" /\ run.task \in DOMAIN Tasks
  BY DEF ByHand, RunInv
<1>2. PICK n \in Nat : SentTo(TheTask.contracts, n, run.deployment, run.base, chain)
  BY <1>1 DEF SentInv, Sent
<1>3. run.task \notin DescriptorTasks
  <2> SUFFICES ASSUME run.task \in DescriptorTasks
               PROVE  FALSE
    OBVIOUS
  <2>1. PICK i \in 1 .. n : TheTask.contracts[i].name = "NounsDAOProxyV2"
    BY <1>2 DEF ByHand, Has, SentTo
  <2>2. i \in 1 .. Len(TheTask.contracts)
    BY <1>2 DEF SentTo
  <2>3. \A j \in 1 .. Len(TheTask.contracts) : TheTask.contracts[j].name # "NounsDAOProxyV2"
    BY DescriptorContracts DEF TheTask
  <2> QED  BY <2>1, <2>2, <2>3
<1>4. run.task \in FullTasks
  BY <1>1, <1>3, TaskNamesAre
<1> QED  BY <1>4, TasksThatWait DEF ByHand, TheTask

\* Once every contract is sent, what the run deployed is one system: its validated addresses,
\* or nobody else having sent, put the house and the governor where they were announced.
LEMMA SystemReady ==
  ASSUME ChainInv, RunInv, SentInv,
         (phase \in {"configuring", "done"} /\ run.task \in FullTasks) \/ ByHand
  PROVE  \E governor \in Governors : SystemOf(governor)
<1> DEFINE c == TheTask.contracts
           dep == run.deployment
           base == run.base
<1>1. run.task \in FullTasks /\ phase # "idle" /\ base \in Nat
  BY ByHandIsFull DEF FullTasks, ByHand, RunInv
<1>2. PICK k \in 0 .. 1, governor \in Governors : FullList(run.task, c, k, governor)
  BY <1>1, FullContracts DEF TheTask
<1>3. PICK n \in Nat : Sent(n)
  BY <1>1 DEF SentInv
<1>4. IsList(c) /\ Len(c) >= k + 13 /\ Len(c) \in Nat /\ Layout(c, k, k, governor)
  BY <1>2 DEF FullList, IsList
<1>5. SentTo(c, n, dep, base, chain)
  BY <1>3 DEF Sent
<1>6. n >= k + 13
  <2>1. CASE phase \in {"configuring", "done"}
    BY <1>3, <1>4, <2>1 DEF Sent
  <2>2. CASE ByHand
    <3>1. k = 0 /\ governor = "NounsDAOProxyV2"
      BY <1>2, <2>2, ByHandIsFull DEF FullList
    <3>2. PICK i \in 1 .. n : c[i].name = "NounsDAOProxyV2"
      BY <1>5, <2>2 DEF ByHand, Has, SentTo
    <3>3. c[13].name = "NounsDAOProxyV2" /\ 13 \in 1 .. Len(c)
      BY <1>4, <3>1 DEF Layout
    <3>4. i \in 1 .. Len(c)
      BY <1>5, <3>2 DEF SentTo
    <3>5. i = 13
      BY <1>4, <3>2, <3>3, <3>4 DEF IsList
    <3> QED  BY <3>1, <3>2, <3>5
  <2> QED  BY <2>1, <2>2
<1>7. k + 10 \in 1 .. n /\ k + 13 \in 1 .. n
  BY <1>6
<1>8. AtPlace(k + 10) /\ AtPlace(k + 13)
  <2>1. CASE run.task = "runLocal"
    <3>1. phase # "failed"
      BY <2>1, ByHandIsFull
    <3>2. disturbed = 0
      BY <1>1, <2>1, <3>1 DEF RunInv
    <3> QED  BY <1>3, <1>7, <3>2 DEF Sent
  <2>2. CASE run.task # "runLocal"
    <3>1. k = 0 /\ c[10].validated /\ c[13].validated
      BY <1>2, <2>2 DEF FullList
    <3>2. ~(phase = "failed" /\ why = "moved")
      BY DEF ByHand
    <3> QED  BY <1>3, <1>7, <3>1, <3>2 DEF Sent
  <2> QED  BY <2>1, <2>2
<1>9. dep[c[k + 10].name] = base + k + 10 /\ dep[c[k + 13].name] = base + k + 13
  <2>1. base + (k + 10) = base + k + 10 /\ base + (k + 13) = base + k + 13
    BY <1>1
  <2> QED  BY <1>8, <2>1 DEF AtPlace, Deployed
<1>10. IsChain(chain)
  BY DEF ChainInv
<1> HIDE DEF c, dep, base
<1>11. Assembled(chain, dep, governor)
  <2>1. k \in 0 .. 1 /\ governor \in Governors /\ base \in Nat
    BY <1>1
  <2> QED  BY ONLY <1>2, <1>5, <1>6, <1>9, <1>10, <2>1, SystemSent, Zenon
<1>12. SystemOf(governor)
  BY <1>2, <1>11 DEF SystemOf, FullList, dep
<1> QED  BY <1>12

\* Undisturbed, the art is where its descriptor expects it.
LEMMA ArtReady ==
  ASSUME ChainInv, RunInv, SentInv, phase = "configuring", disturbed = 0
  PROVE  /\ "NounsDescriptorV2" \in DOMAIN run.deployment
         /\ ArtFits(chain, Deployed("NounsDescriptorV2"))
<1>1. run.task \in FullTasks \cup DescriptorTasks /\ run.base \in Nat
  BY TaskNamesAre DEF RunInv
<1>2. CASE run.task \in FullTasks
  <2>1. PICK governor \in Governors : SystemOf(governor)
    BY <1>2, SystemReady
  <2> QED  BY <2>1 DEF SystemOf, Assembled, Wired, Ownable, Deployed
<1>3. CASE run.task \in DescriptorTasks
  <2> DEFINE c == TheTask.contracts
  <2>1. /\ IsList(c)
        /\ \E descriptor \in 1 .. Len(c), ahead \in Nat :
             ahead + 1 \in 1 .. Len(c) /\ ArtLayout(c, descriptor, ahead + 1, ahead)
    BY <1>3, DescriptorContracts DEF TheTask
  <2>2. PICK p \in 1 .. Len(c), ahead \in Nat :
          ahead + 1 \in 1 .. Len(c) /\ ArtLayout(c, p, ahead + 1, ahead)
    BY <2>1
  <2>3. PICK n \in Nat : Sent(n)
    BY DEF SentInv
  <2>4. SentTo(c, n, run.deployment, run.base, chain) /\ n = Len(c)
    BY <2>3 DEF Sent
  <2>5. Deployed(c[ahead + 1].name) = run.base + (ahead + 1)
    BY <2>2, <2>3, <2>4 DEF Sent, AtPlace
  <2>6. run.deployment["NounsArt"] = run.base + ahead + 1
    <3>1. run.base + (ahead + 1) = run.base + ahead + 1
      BY <1>1
    <3> QED  BY <2>2, <2>5, <3>1 DEF ArtLayout, Deployed
  <2>7. IsChain(chain)
    BY DEF ChainInv
  <2> HIDE DEF c
  <2>8. /\ "NounsDescriptorV2" \in DOMAIN run.deployment
        /\ ArtFits(chain, run.deployment["NounsDescriptorV2"])
    BY <1>1, <2>1, <2>2, <2>4, <2>6, <2>7, ArtSent
  <2> QED  BY <2>8 DEF Deployed
<1> QED  BY <1>1, <1>2, <1>3

-----------------------------------------------------------------------------
(* What every step keeps.                                                  *)

\* The task, its flags, the addresses it computes and what it deployed.
SameRun ==
  /\ run'.task = run.task /\ run'.flags = run.flags
  /\ run'.base = run.base /\ run'.deployment = run.deployment

\* A transaction of anybody adds a place.
LEMMA SentAppends ==
  ASSUME ChainInv, NEW entry, Send(entry)
  PROVE  /\ IsChain(chain') /\ Len(chain') = Len(chain) + 1 /\ Grows(chain, chain')
         /\ DOMAIN chain \subseteq DOMAIN chain' /\ Len(chain) \in Nat
BY Appended, ChainIsASequence DEF ChainInv, Send, Grows

\* A chain nothing was sent to.
LEMMA GrowsReflexive == \A ch : Grows(ch, ch)
BY DEF Grows

\* A step after the last deployment keeps what is known of the deployments.
LEMMA SentKept ==
  ASSUME SentInv, Grows(chain, chain'), SameRun, phase # "idle",
         phase' \in {"configuring", "done", "failed"},
         phase' # "failed" => phase \in {"configuring", "done"},
         phase = "failed" => phase' = "failed" /\ why' = why,
         disturbed' = 0 => disturbed = 0
  PROVE  SentInv'
<1>1. PICK n \in Nat : Sent(n)
  BY DEF SentInv
<1>2. TheTask' = TheTask
  BY DEF TheTask, SameRun
<1>3. SentTo(TheTask.contracts, n, run'.deployment, run'.base, chain')
  BY <1>1, SentStays DEF Sent, SameRun
<1>4. \A i : AtPlace(i)' <=> AtPlace(i)
  BY <1>2 DEF AtPlace, Deployed, SameRun
<1>5. Sent(n)'
  BY <1>1, <1>2, <1>3, <1>4 DEF Sent
<1> QED  BY <1>5 DEF SentInv

\* A step that changes no owner leaves what was not handed over with the deployer.
LEMMA HeldKept ==
  ASSUME HeldInv, SameRun, RunInv, RunInv', ownedBy' = ownedBy, phase # "idle",
         phase' \in {"deploying", "configuring"} => phase' = phase /\ run.step <= run'.step
  PROVE  HeldInv'
<1> SUFFICES ASSUME phase' \in {"deploying", "configuring"}
             PROVE  HeldInv'
  BY DEF HeldInv
<1>1. phase' = phase /\ run.step <= run'.step /\ run.step \in Nat /\ run'.step \in Nat
  BY DEF RunInv
<1>2. Configuration' = Configuration
  BY DEF Configuration, TheTask, SameRun
<1>3. ASSUME NEW name, HandedYet(name)
      PROVE  HandedYet(name)'
  <2>1. PICK i \in 1 .. Len(Configuration) :
          i < run.step /\ Configuration[i].do = "own" /\ Configuration[i].what = name
    BY <1>3 DEF HandedYet
  <2>2. i < run'.step
    BY <1>1, <2>1
  <2> QED  BY <1>1, <1>2, <1>3, <2>1, <2>2 DEF HandedYet
<1>4. \A name : Deployed(name)' = Deployed(name)
  BY DEF Deployed, SameRun
<1> QED  BY <1>1, <1>3, <1>4 DEF HeldInv, SameRun

\* A step that was done stays done, whatever else is sent, uploaded or handed over.
LEMMA StepStaysDone ==
  ASSUME NEW step, NEW dep, NEW executor, NEW ch, NEW later, Grows(ch, later),
         NEW owned, NEW owned2,
         \A a \in DOMAIN owned : a \in DOMAIN owned2 /\ owned2[a] \in {owned[a], executor},
         NEW im, NEW im2, im \subseteq im2, NEW au, NEW au2, au \subseteq au2,
         NEW mi, NEW mi2, mi \subseteq mi2,
         StepLeft(step, dep, executor, ch, owned, im, au, mi)
  PROVE  StepLeft(step, dep, executor, later, owned2, im2, au2, mi2)
<1>1. ASSUME step.do = "put"
      PROVE  /\ dep["NounsDescriptorV2"] \in DOMAIN later
             /\ <<later[dep["NounsDescriptorV2"]].args.art, step.what, step.from>> \in im2
  BY <1>1 DEF StepLeft, Grows
<1>2. ASSUME step.do = "own"
      PROVE  dep[step.what] \in DOMAIN owned2 /\ owned2[dep[step.what]] = executor
  BY <1>2 DEF StepLeft
<1>3. ASSUME step.do = "unpause"
      PROVE  \/ dep["NounsToken"] \in mi2
             \/ /\ dep["NounsAuctionHouseProxy"] \in au2
                /\ FullArt(later, im2, dep["NounsDescriptorV2"])
  <2>1. CASE dep["NounsToken"] \in mi
    BY <2>1
  <2>2. CASE dep["NounsAuctionHouseProxy"] \in au /\ FullArt(ch, im, dep["NounsDescriptorV2"])
    BY <2>2, FullArtStays
  <2> QED  BY <1>3, <2>1, <2>2 DEF StepLeft
<1> QED  BY <1>1, <1>2, <1>3 DEF StepLeft

\* The steps done before stay done; what is left to show is the step taken.
LEMMA StepsKept ==
  ASSUME NEW last, last = run.step, StepsInv, RunInv, RunInv', SameRun,
         Grows(chain, chain'), images \subseteq images',
         auctions \subseteq auctions', minted \subseteq minted', phase # "idle",
         \A a \in DOMAIN ownedBy :
           a \in DOMAIN ownedBy' /\ ownedBy'[a] \in {ownedBy[a], TheExecutor},
         phase' # "deploying",
         phase' = "configuring" =>
           /\ phase = "configuring"
           /\ run'.step = run.step \/ (run'.step = run.step + 1 /\ StepDone(last)'),
         phase' = "done" =>
           /\ run'.step = run.step
           /\ phase = "done" \/ (phase = "configuring" /\ run.step > Len(Configuration))
  PROVE  StepsInv'
<1>1. Configuration' = Configuration
  BY DEF Configuration, TheTask, SameRun
<1>2. run.step \in Nat /\ Len(Configuration) \in Nat
  <2>1. run.task \in DOMAIN Tasks /\ run.flags \in FlagSets
    BY DEF RunInv
  <2>2. Configured(run.task, run.flags, Configuration)
    BY <2>1, ConfigurationOf DEF Configuration, TheTask
  <2> QED  BY <2>2 DEF Configured, IsConfiguration, RunInv
<1>3. TheExecutor' = TheExecutor
  BY DEF TheExecutor, Has, Deployed, SameRun
<1>30. ASSUME NEW i, StepDone(i)
       PROVE  StepDone(i)'
  <2>1. StepLeft(Configuration[i], run.deployment, TheExecutor, chain', ownedBy', images',
                 auctions', minted')
    BY <1>30, StepStaysDone DEF StepDone
  <2> QED  BY <1>1, <1>3, <2>1 DEF StepDone, SameRun
<1>4. ASSUME phase' \in {"configuring", "done"}, NEW i \in 1 .. Len(Configuration), i < run'.step
      PROVE  StepDone(i)'
  <2>1. phase \in {"configuring", "done"}
    BY <1>4
  <2>2. CASE i < run.step
    <3>1. StepDone(i)
      BY <2>1, <2>2 DEF StepsInv
    <3> QED  BY <1>30, <3>1
  <2>3. CASE ~(i < run.step)
    <3>1. run'.step = run.step + 1 /\ StepDone(last)' /\ i = last
      BY <1>2, <1>4, <2>3
    <3> QED  BY <3>1
  <2> QED  BY <2>2, <2>3
<1> QED  BY <1>1, <1>4 DEF StepsInv

\* The addresses an executor already owns.
HadOwner(a) == a \in DOMAIN ownedBy /\ ownedBy[a] > 0

\* A house keeps running.
LEMMA HouseKept ==
  ASSUME ChainInv, ChainInv', HandedInv, HousesRun, Grows(chain, chain'),
         images \subseteq images', auctions \subseteq auctions', minted \subseteq minted',
         NEW a, HadOwner(a), Named(chain', a, "NounsAuctionHouseProxy")
  PROVE  RunningHouse(chain', images', auctions', minted', a)
<1>1. Wired(chain, ownedBy[a]) /\ Belongs(chain, a, ownedBy[a])
  BY DEF HandedInv, HadOwner
<1>2. a \in DOMAIN chain /\ chain'[a] = chain[a]
  BY DEF ChainInv, Grows, HadOwner
<1>3. Named(chain, a, "NounsAuctionHouseProxy")
  BY <1>2 DEF Named
<1>4. RunningHouse(chain, images, auctions, minted, a)
  BY <1>3 DEF HousesRun, HadOwner
<1> QED  BY <1>1, <1>3, <1>4, RunningStays

\* A step that hands nothing over keeps the systems wired and the houses running.
LEMMA HousesKept ==
  ASSUME ChainInv, ChainInv', HandedInv, HousesRun, Grows(chain, chain'),
         images \subseteq images', auctions \subseteq auctions', minted \subseteq minted',
         \A a \in DOMAIN ownedBy' : ownedBy'[a] > 0 => HadOwner(a) /\ ownedBy[a] = ownedBy'[a]
  PROVE  HandedInv' /\ HousesRun'
<1>1. HandedInv'
  BY WiredStays DEF HandedInv, HadOwner
<1>2. HousesRun'
  BY HouseKept DEF HousesRun
<1> QED  BY <1>1, <1>2

-----------------------------------------------------------------------------
(* Beginning, returning, and the transactions of others.                   *)

\* Every task deploys a well-formed list.
LEMMA AllListed ==
  ASSUME NEW t \in DOMAIN Tasks
  PROVE  IsList(Tasks[t].contracts)
BY TaskNamesAre, FullContracts, DescriptorContracts DEF FullList

\* A task begins.
LEMMA StartKeepsInv ==
  ASSUME DeploymentInv, ConfirmedInv, NEW task \in TaskNames, NEW network \in Networks,
         NEW flags \in FlagSets, Start(task, network, flags)
  PROVE  DeploymentInv'
<1> DEFINE family == Tasks[task].family
           weth == IF flags.weth THEN "weth" ELSE Weth(family, network)
           terms == IF flags.shortPeriod THEN [Tasks[task].terms EXCEPT !.votingPeriod = 100]
                    ELSE Tasks[task].terms
<1>1. /\ UNCHANGED <<chain, ownedBy, images, auctions, minted>>
      /\ \/ phase' = "deploying" /\ why' = ""
         \/ phase' = "failed" /\ why' \in {"wrong chain", "weth"}
      /\ \E base \in Nonces(family) :
           /\ run' = [task |-> task, flags |-> flags, weth |-> weth, terms |-> terms,
                      base |-> base, step |-> 1, deployment |-> [name \in {} |-> Nowhere]]
           /\ disturbed' = Len(chain) - base
  BY DEF Start, Fail
<1>2. task \in DOMAIN Tasks /\ Len(chain) \in Nat
  BY DeploymentAssumption, ChainIsASequence DEF DeploymentInv, ChainInv
<1>11. PICK base \in Nonces(family) :
         /\ run' = [task |-> task, flags |-> flags, weth |-> weth, terms |-> terms,
                    base |-> base, step |-> 1, deployment |-> [name \in {} |-> Nowhere]]
         /\ disturbed' = Len(chain) - base
  BY <1>1
<1>12. base \in Nat /\ base <= Len(chain) /\ (family = "local" => base = Len(chain))
  BY <1>2 DEF Nonces, ConfirmedInv
<1>13. disturbed' \in Nat /\ (disturbed' = 0 => base = Len(chain))
  BY <1>2, <1>11, <1>12
<1>14. task = "runLocal" => disturbed' = 0
  <2>1. task = "runLocal" => family = "local"
    BY DEF Tasks, Task
  <2> QED  BY <1>2, <1>11, <1>12, <2>1
<1> HIDE DEF family, weth
<1>3. ChainInv'
  BY <1>1 DEF DeploymentInv, ChainInv
<1>4. ~flags.shortPeriod => terms = Tasks[task].terms
  OBVIOUS
<1> HIDE DEF terms
<1>15. /\ DOMAIN run' = {"task", "flags", "weth", "terms", "base", "step", "deployment"}
       /\ run'.task = task /\ run'.flags = flags /\ run'.terms = terms
       /\ run'.base = base /\ run'.step = 1
       /\ run'.deployment = [name \in {} |-> Nowhere]
  BY <1>11
<1>16. TheTask' = Tasks[task]
  BY <1>15 DEF TheTask
<1>5. RunInv'
  <2>1. phase' \in Phases /\ chain' = chain
    BY <1>1 DEF Phases
  <2> QED  BY <1>2, <1>4, <1>12, <1>13, <1>14, <1>15, <1>16, <2>1 DEF RunInv
<1>6. SentInv'
  <2>1. SentTo(Tasks[task].contracts, 0, [name \in {} |-> Nowhere], base, chain)
    BY <1>2, AllListed, NothingSent
  <2>2. 0 \in Nat /\ 0 = 1 - 1 /\ (disturbed' = 0 => Len(chain) = base + 0)
    BY <1>2, <1>12, <1>13
  <2>3. chain' = chain /\ phase' \in {"deploying", "failed"} /\ why' # "moved"
    BY <1>1
  <2>4. \A i : i \notin 1 .. 0
    OBVIOUS
  <2>5. Sent(0)'
    BY <1>15, <1>16, <2>1, <2>2, <2>3, <2>4 DEF Sent
  <2> QED  BY <2>2, <2>5 DEF SentInv
<1>7. HeldInv'
  <2>1. DOMAIN run'.deployment = {}
    BY <1>15
  <2> QED  BY <2>1 DEF HeldInv
<1>8. StepsInv'
  BY <1>1 DEF StepsInv
<1>9. HandedInv' /\ HousesRun'
  BY <1>1 DEF DeploymentInv, HandedInv, HousesRun
<1>10. FailsOnlyWhenDisturbed'
  BY <1>1 DEF FailsOnlyWhenDisturbed
<1> QED  BY <1>3, <1>5, <1>6, <1>7, <1>8, <1>9, <1>10 DEF DeploymentInv

\* A constructor refuses a malformed WETH, or terms out of bounds, which only a shortened
\* voting period has.
LEMMA RefusedKeepsInv ==
  ASSUME DeploymentInv, phase = "deploying", run.step <= Len(TheTask.contracts),
         Refused(TheTask.contracts[run.step]),
         Fail(IF run.weth = "malformed" THEN "weth" ELSE "terms"),
         UNCHANGED <<run, chain, ownedBy, images, auctions, minted, configs, disturbed, runs>>
  PROVE  DeploymentInv'
<1>1. Grows(chain, chain') /\ SameRun
  BY GrowsReflexive DEF SameRun
<1>2. phase' = "failed" /\ why' = IF run.weth = "malformed" THEN "weth" ELSE "terms"
  BY DEF Fail
<1>3. ChainInv' /\ RunInv'
  BY <1>2 DEF DeploymentInv, ChainInv, RunInv, Phases, TheTask
<1>4. SentInv'
  BY <1>1, <1>2, SentKept DEF DeploymentInv
<1>5. HeldInv' /\ StepsInv'
  BY <1>2 DEF HeldInv, StepsInv
<1>6. HandedInv' /\ HousesRun'
  BY <1>2 DEF DeploymentInv, HandedInv, HousesRun
<1>7. FailsOnlyWhenDisturbed'
  <2>1. CASE run.weth = "malformed"
    BY <1>2, <2>1 DEF FailsOnlyWhenDisturbed
  <2>2. CASE run.weth # "malformed"
    <3>1. why' = "terms" /\ ~TheTask.tested
      BY <1>2, <2>2 DEF Refused
    <3>2. ~ExecutorAccepts(run.terms) \/ ~GovernorAccepts(run.terms)
      BY <2>2 DEF Refused
    <3>3. run.task \in DOMAIN Tasks /\ (~run.flags.shortPeriod => run.terms = TheTask.terms)
      BY DEF DeploymentInv, RunInv
    <3>5. run.flags.shortPeriod
      BY <3>1, <3>2, <3>3, TermsAccepted DEF TheTask
    <3> QED  BY <1>2, <3>1, <3>5 DEF FailsOnlyWhenDisturbed
  <2> QED  BY <2>1, <2>2
<1> QED  BY <1>3, <1>4, <1>5, <1>6, <1>7 DEF DeploymentInv

\* Every contract is deployed, and the configuration begins.
LEMMA ReturnKeepsInv ==
  ASSUME DeploymentInv, Return
  PROVE  DeploymentInv'
<1>1. /\ phase = "deploying" /\ phase' = "configuring" /\ run' = [run EXCEPT !.step = 1]
      /\ run.step > Len(TheTask.contracts)
      /\ UNCHANGED <<why, chain, ownedBy, images, auctions, minted, disturbed>>
  BY DEF Return
<1>2. /\ SameRun /\ run'.step = 1 /\ run'.terms = run.terms /\ DOMAIN run' = DOMAIN run
      /\ TheTask' = TheTask
  BY <1>1 DEF DeploymentInv, RunInv, SameRun, TheTask
<1>3. ChainInv' /\ RunInv'
  BY <1>1, <1>2 DEF DeploymentInv, ChainInv, RunInv, Phases, SameRun
<1>4. SentInv'
  <2>1. PICK n \in Nat : Sent(n)
    BY <1>1 DEF DeploymentInv, SentInv
  <2>2. n = run.step - 1 /\ n \in 0 .. Len(TheTask.contracts) /\ run.step \in Nat
    BY <1>1, <2>1 DEF Sent, SentTo, DeploymentInv, RunInv
  <2>3. Len(TheTask.contracts) \in Nat
    BY <1>1, AllListed DEF DeploymentInv, RunInv, TheTask, IsList
  <2>4. n = Len(TheTask.contracts)
    BY <1>1, <2>2, <2>3
  <2>5. \A i : AtPlace(i)' <=> AtPlace(i)
    BY <1>2 DEF AtPlace, Deployed, SameRun
  <2>6. Sent(n)'
    BY <1>1, <1>2, <2>1, <2>4, <2>5 DEF Sent, SameRun
  <2> QED  BY <2>6 DEF SentInv
<1>5. HeldInv'
  <2>1. ASSUME NEW name
        PROVE  /\ ~HandedYet(name) /\ Deployed(name)' = Deployed(name)
    BY <1>1, <1>2 DEF HandedYet, Deployed, SameRun
  <2> QED  BY <1>1, <1>2, <2>1 DEF DeploymentInv, HeldInv, SameRun
<1>6. StepsInv'
  <2>1. \A i \in 1 .. Len(Configuration)' : ~(i < run'.step)
    BY <1>2
  <2> QED  BY <1>1, <2>1 DEF StepsInv
<1>7. HandedInv' /\ HousesRun'
  BY <1>1 DEF DeploymentInv, HandedInv, HousesRun
<1>8. FailsOnlyWhenDisturbed'
  BY <1>1 DEF FailsOnlyWhenDisturbed
<1> QED  BY <1>3, <1>4, <1>5, <1>6, <1>7, <1>8 DEF DeploymentInv

\* Another transaction of the deployer comes in between.
LEMMA ForeignTransactionKeepsInv ==
  ASSUME DeploymentInv, ForeignTransaction
  PROVE  DeploymentInv'
<1>1. /\ phase \in {"deploying", "configuring"} /\ run.task # "runLocal"
      /\ Send(Other) /\ disturbed' = disturbed + 1
      /\ UNCHANGED <<run, phase, why, ownedBy, images, auctions, minted>>
  BY DEF ForeignTransaction
<1>2. /\ IsChain(chain') /\ Len(chain') = Len(chain) + 1 /\ Grows(chain, chain')
      /\ DOMAIN chain \subseteq DOMAIN chain' /\ Len(chain) \in Nat
  BY <1>1, SentAppends DEF DeploymentInv
<1>3. SameRun /\ TheTask' = TheTask
  BY <1>1 DEF SameRun, TheTask
<1>4. ChainInv' /\ RunInv'
  BY <1>1, <1>2, <1>3 DEF DeploymentInv, ChainInv, RunInv
<1>5. disturbed' # 0
  BY <1>1 DEF DeploymentInv, RunInv
<1>6. SentInv'
  <2>1. PICK n \in Nat : Sent(n)
    BY <1>1 DEF DeploymentInv, SentInv
  <2>2. SentTo(TheTask.contracts, n, run.deployment, run.base, chain')
    BY <1>2, <2>1, SentStays DEF Sent
  <2>3. \A i : AtPlace(i)' <=> AtPlace(i)
    BY <1>1, <1>3 DEF AtPlace, Deployed
  <2>4. Sent(n)'
    BY <1>1, <1>3, <1>5, <2>1, <2>2, <2>3 DEF Sent
  <2> QED  BY <2>4 DEF SentInv
<1>7. HeldInv'
  BY <1>1, <1>3, <1>4, HeldKept DEF DeploymentInv, RunInv
<1>8. StepsInv'
  <2>1. CASE phase = "deploying"
    BY <1>1, <2>1 DEF StepsInv
  <2>2. CASE phase = "configuring"
    <3>1. PICK last : last = run.step
      OBVIOUS
    <3> QED  BY <1>1, <1>2, <1>3, <1>4, <2>2, <3>1, StepsKept DEF DeploymentInv
  <2> QED  BY <1>1, <2>1, <2>2
<1>9. HandedInv' /\ HousesRun'
  BY <1>1, <1>2, <1>4, HousesKept DEF DeploymentInv, HadOwner
<1>10. FailsOnlyWhenDisturbed'
  BY <1>1 DEF FailsOnlyWhenDisturbed
<1> QED  BY <1>4, <1>6, <1>7, <1>8, <1>9, <1>10 DEF DeploymentInv

\* A transaction cannot be sent, or the process dies.
LEMMA TransactionFailsKeepsInv ==
  ASSUME DeploymentInv, TransactionFails
  PROVE  DeploymentInv'
<1>1. /\ phase \in {"deploying", "configuring"} /\ phase' = "failed" /\ why' = "network"
      /\ disturbed' = disturbed + 1
      /\ UNCHANGED <<run, chain, ownedBy, images, auctions, minted>>
  BY DEF TransactionFails, Fail
<1>2. Grows(chain, chain') /\ SameRun /\ TheTask' = TheTask
  BY <1>1, GrowsReflexive DEF SameRun, TheTask
<1>3. disturbed' > 0 /\ disturbed' \in Nat
  BY <1>1 DEF DeploymentInv, RunInv
<1>4. ChainInv' /\ RunInv'
  BY <1>1, <1>2, <1>3 DEF DeploymentInv, ChainInv, RunInv, Phases
<1>5. SentInv'
  BY <1>1, <1>2, <1>3, SentKept DEF DeploymentInv
<1>6. HeldInv' /\ StepsInv'
  BY <1>1 DEF HeldInv, StepsInv
<1>7. HandedInv' /\ HousesRun'
  BY <1>1 DEF DeploymentInv, HandedInv, HousesRun
<1>8. FailsOnlyWhenDisturbed'
  BY <1>1, <1>3 DEF FailsOnlyWhenDisturbed
<1> QED  BY <1>4, <1>5, <1>6, <1>7, <1>8 DEF DeploymentInv

-----------------------------------------------------------------------------
(* The deployments.                                                        *)

\* The next contract of the list is sent; a validated address that differs stops the task.
LEMMA SendContractKeepsInv ==
  ASSUME DeploymentInv, SendContract
  PROVE  DeploymentInv'
<1> DEFINE c == TheTask.contracts
           contract == c[run.step]
           address == Len(chain) + 1
           args == [role \in DOMAIN contract.args |-> AddressOf(contract.args[role])]
           entry == [name |-> contract.name, args |-> args]
<1>1. /\ phase = "deploying" /\ run.step <= Len(c)
      /\ UNCHANGED <<images, auctions, minted, configs, disturbed, runs>>
  BY DEF SendContract
<1>2. CASE Refused(contract)
  <2>1. /\ Fail(IF run.weth = "malformed" THEN "weth" ELSE "terms")
        /\ UNCHANGED <<run, chain, ownedBy>>
    BY <1>2 DEF SendContract
  <2> QED  BY <1>1, <1>2, <2>1, RefusedKeepsInv
<1>3. CASE ~Refused(contract)
  <2>1. /\ Send(entry)
        /\ ownedBy' = IF contract.name \in Ownable THEN Assigned(ownedBy, address, Deployer)
                      ELSE ownedBy
        /\ run' = [run EXCEPT !.step = @ + 1,
                              !.deployment = Assigned(@, contract.name, address)]
        /\ IF Moved(contract, address) THEN Fail("moved") ELSE UNCHANGED <<phase, why>>
    BY <1>3 DEF SendContract
  <2>2. PICK n \in Nat : Sent(n)
    BY <1>1 DEF DeploymentInv, SentInv
  <2>3. /\ n + 1 = run.step /\ SentTo(c, n, run.deployment, run.base, chain)
        /\ run.base \in Nat /\ run.base <= Len(chain)
    BY <1>1, <2>2 DEF Sent, DeploymentInv, RunInv
  <2>4. IsList(c) /\ Len(c) \in Nat /\ n < Len(c) /\ run.step \in 1 .. Len(c)
    BY <1>1, <2>3, AllListed DEF DeploymentInv, RunInv, TheTask, IsList
  <2>5. /\ IsChain(chain') /\ Len(chain') = address /\ Grows(chain, chain')
        /\ DOMAIN chain \subseteq DOMAIN chain' /\ Len(chain) \in Nat
        /\ DOMAIN chain = 1 .. Len(chain) /\ DOMAIN chain' = 1 .. address
    BY <2>1, SentAppends, ChainIsASequence DEF DeploymentInv, ChainInv
  <2>6. /\ DOMAIN run' = DOMAIN run /\ run'.step = run.step + 1
        /\ run'.deployment = Assigned(run.deployment, contract.name, address)
        /\ run'.task = run.task /\ run'.flags = run.flags /\ run'.base = run.base
        /\ run'.terms = run.terms /\ TheTask' = TheTask
    BY <2>1 DEF DeploymentInv, RunInv, TheTask
  <2>7. \/ phase' = "deploying" /\ why' = why /\ ~Moved(contract, address)
        \/ phase' = "failed" /\ why' = "moved" /\ Moved(contract, address)
    BY <1>1, <2>1 DEF Fail
  <2>8. SentTo(c, n + 1, run'.deployment, run.base, chain')
    <3>1. /\ DOMAIN args = DOMAIN c[n + 1].args
          /\ \A role \in DOMAIN args :
               args[role] = Resolved(c[n + 1].args[role], run.deployment, run.base)
      BY <2>3 DEF AddressOf, Resolved, Deployed
    <3>2. chain' = Append(chain, entry) /\ contract = c[n + 1]
      BY <2>1, <2>3 DEF Send
    <3>3. IsChain(chain)
      BY DEF DeploymentInv, ChainInv
    <3> HIDE DEF args, address, contract, c
    <3>4. SentTo(c, n + 1, Assigned(run.deployment, c[n + 1].name, Len(chain) + 1), run.base,
                 Append(chain, [name |-> c[n + 1].name, args |-> args]))
      BY <2>3, <2>4, <3>1, <3>3, SendsNext
    <3> QED  BY <2>6, <3>2, <3>4 DEF address
  <2>9. /\ run'.deployment[contract.name] = address
        /\ DOMAIN run'.deployment = DOMAIN run.deployment \cup {contract.name}
        /\ \A name \in DOMAIN run.deployment :
             name # contract.name => run'.deployment[name] = run.deployment[name]
    BY <2>6 DEF Assigned
  <2>10. \A i \in 1 .. n : run'.deployment[c[i].name] = run.deployment[c[i].name]
    <3>1. \A i \in 1 .. n : c[i].name \in DOMAIN run.deployment
      BY <2>3 DEF SentTo
    <3>2. \A i \in 1 .. n : i \in 1 .. Len(c) /\ i # run.step
      BY <2>3, <2>4
    <3>3. \A i \in 1 .. n : c[i].name # contract.name
      BY <2>4, <3>2 DEF IsList
    <3> QED  BY <2>9, <3>1, <3>3
  <2>11. /\ \A a \in DOMAIN ownedBy : a \in DOMAIN ownedBy' /\ ownedBy'[a] = ownedBy[a]
         /\ \A a \in DOMAIN ownedBy' :
              a \in DOMAIN ownedBy \/ (a = address /\ ownedBy'[a] = Deployer)
         /\ contract.name \in Ownable => address \in DOMAIN ownedBy' /\ ownedBy'[address] = Deployer
         /\ address \notin DOMAIN ownedBy
    <3>1. address \notin DOMAIN ownedBy
      BY <2>5 DEF DeploymentInv, ChainInv
    <3> QED  BY <2>1, <3>1 DEF Assigned
  <2>12. ChainInv'
    <3>1. ownedBy' = [a \in DOMAIN ownedBy' |-> ownedBy'[a]]
      BY <2>1 DEF Assigned, DeploymentInv, ChainInv
    <3>2. \A a \in DOMAIN ownedBy' : ownedBy'[a] \in Int
      BY <2>11 DEF DeploymentInv, ChainInv, Deployer
    <3>3. DOMAIN ownedBy' \subseteq DOMAIN chain'
      BY <2>5, <2>11 DEF DeploymentInv, ChainInv
    <3> QED  BY <2>5, <3>1, <3>2, <3>3 DEF ChainInv
  <2>13. RunInv'
    BY <1>1, <2>3, <2>5, <2>6, <2>7 DEF DeploymentInv, RunInv, Phases
  <2> HIDE DEF args, entry
  <2>14. SentInv'
    <3> DEFINE m == n + 1
    <3>1. m \in Nat /\ m = run'.step - 1 /\ m = run.step
      BY <2>3, <2>4, <2>6
    <3>2. \A i \in 1 .. m : i \in 1 .. n \/ i = m
      OBVIOUS
    <3>3. \A i \in 1 .. n : AtPlace(i)' <=> AtPlace(i)
      BY <2>6, <2>10 DEF AtPlace, Deployed
    <3>4. AtPlace(m)' <=> address = run.base + m
      BY <2>6, <2>9, <3>1 DEF AtPlace, Deployed
    <3> HIDE DEF m
    <3>5. ASSUME ~Moved(contract, address), contract.validated
          PROVE  AtPlace(m)'
      <4>1. contract.offset = run.step - 1
        BY <2>4, <3>5 DEF IsList
      <4>2. address = run.base + (run.step - 1) + 1
        BY <3>5, <4>1 DEF Moved
      <4> QED  BY <2>3, <2>4, <2>5, <3>1, <3>4, <4>2
    <3>6. ASSUME disturbed = 0
          PROVE  AtPlace(m)' /\ Len(chain') = run.base + m
      <4>1. Len(chain) = run.base + n
        BY <1>1, <2>2, <3>6 DEF Sent
      <4>2. address = run.base + m
        <5>1. run.base \in Nat /\ n \in Nat
          BY <2>3
        <5> QED  BY <4>1, <5>1 DEF m, address
      <4> QED  BY <2>5, <3>4, <4>2
    <3>7. ASSUME ~(phase' = "failed" /\ why' = "moved"), NEW i \in 1 .. m, c[i].validated
          PROVE  AtPlace(i)'
      <4>1. CASE i \in 1 .. n
        BY <1>1, <2>2, <3>3, <3>7, <4>1 DEF Sent
      <4>2. CASE i = m
        BY <2>7, <3>1, <3>5, <3>7, <4>2
      <4> QED  BY <3>2, <4>1, <4>2
    <3>8. ASSUME disturbed = 0, NEW i \in 1 .. m
          PROVE  AtPlace(i)'
      BY <2>2, <3>2, <3>3, <3>6, <3>8 DEF Sent
    <3>9. SentTo(c, m, run'.deployment, run.base, chain')
      BY <2>8 DEF m
    <3>10. Sent(m)'
      BY <1>1, <2>6, <2>7, <3>1, <3>6, <3>7, <3>8, <3>9 DEF Sent
    <3> QED  BY <3>1, <3>10 DEF SentInv
  <2>15. HeldInv'
    <3> SUFFICES ASSUME phase' = "deploying", NEW name \in Ownable, name \in DOMAIN run'.deployment
                 PROVE  /\ run'.deployment[name] \in DOMAIN ownedBy'
                        /\ ownedBy'[run'.deployment[name]] = Deployer
      BY <2>7 DEF HeldInv, Deployed
    <3>1. CASE name = contract.name
      BY <2>9, <2>11, <3>1
    <3>2. CASE name # contract.name
      <4>1. name \in DOMAIN run.deployment /\ run'.deployment[name] = Deployed(name)
        BY <2>9, <3>2 DEF Deployed
      <4>2. Deployed(name) \in DOMAIN ownedBy /\ ownedBy[Deployed(name)] = Deployer
        BY <1>1, <4>1 DEF DeploymentInv, HeldInv, HandedYet
      <4> QED  BY <2>11, <4>1, <4>2
    <3> QED  BY <3>1, <3>2
  <2>16. StepsInv'
    BY <2>7 DEF StepsInv
  <2>17. HandedInv' /\ HousesRun'
    <3>1. \A a \in DOMAIN ownedBy' : ownedBy'[a] > 0 => HadOwner(a) /\ ownedBy[a] = ownedBy'[a]
      BY <2>11 DEF HadOwner, Deployer
    <3> QED  BY <1>1, <2>5, <2>12, <3>1, HousesKept DEF DeploymentInv
  <2>18. FailsOnlyWhenDisturbed'
    <3>1. ASSUME Moved(contract, address)
          PROVE  disturbed > 0
      <4> SUFFICES ASSUME disturbed = 0
                   PROVE  FALSE
        BY DEF DeploymentInv, RunInv
      <4>1. Len(chain) = run.base + n
        BY <1>1, <2>2 DEF Sent
      <4>2. contract.validated /\ contract.offset = run.step - 1
        BY <2>4, <3>1 DEF Moved, IsList
      <4>3. address = run.base + contract.offset + 1
        BY <2>3, <2>4, <4>1, <4>2
      <4> QED  BY <3>1, <4>3 DEF Moved
    <3>2. disturbed' = disturbed
      BY <1>1
    <3> QED  BY <2>7, <3>1, <3>2 DEF FailsOnlyWhenDisturbed
  <2> QED
    BY <2>12, <2>13, <2>14, <2>15, <2>16, <2>17, <2>18 DEF DeploymentInv
<1> QED  BY <1>2, <1>3

-----------------------------------------------------------------------------
(* The configuration.                                                      *)

\* The configuration of the run under way.
LEMMA TheConfiguration ==
  ASSUME RunInv, phase # "idle"
  PROVE  /\ Configured(run.task, run.flags, Configuration)
         /\ IsConfiguration(Configuration, UploadsBy(run.task))
         /\ Len(Configuration) \in Nat /\ run.step \in Nat \ {0}
         /\ run.task \in FullTasks \cup DescriptorTasks
<1>1. run.task \in DOMAIN Tasks /\ run.flags \in FlagSets /\ run.step \in Nat \ {0}
  BY DEF RunInv
<1>2. Configured(run.task, run.flags, Configuration)
  BY <1>1, ConfigurationOf DEF Configuration, TheTask
<1> QED  BY <1>1, <1>2, TaskNamesAre DEF Configured, IsConfiguration

\* A step of the configuration that hands nothing over goes through.
LEMMA StepKeepsInv ==
  ASSUME NEW last, last = run.step, DeploymentInv, phase = "configuring", Next_step,
         StepDone(last)', IsChain(chain'), Grows(chain, chain'), Len(chain') \in Nat,
         Len(chain) <= Len(chain'), images \subseteq images',
         auctions \subseteq auctions', minted \subseteq minted', ownedBy' = ownedBy,
         disturbed' = disturbed
  PROVE  DeploymentInv'
<1>1. /\ phase' = phase /\ why' = why /\ run' = [run EXCEPT !.step = @ + 1]
  BY DEF Next_step
<1>2. /\ SameRun /\ DOMAIN run' = DOMAIN run /\ run'.terms = run.terms
      /\ run'.step = run.step + 1
  BY <1>1 DEF SameRun, DeploymentInv, RunInv
<1>3. /\ run.base \in Nat /\ run.base <= Len(chain) /\ run.step \in Nat \ {0} /\ TheTask' = TheTask
  BY <1>2 DEF DeploymentInv, RunInv, SameRun, TheTask
<1>4. ChainInv'
  BY DEF DeploymentInv, ChainInv, Grows
<1>5. RunInv'
  <2>1. Len(chain) \in Nat
    BY ChainIsASequence DEF DeploymentInv, ChainInv
  <2>2. run'.base <= Len(chain')
    BY <1>2, <1>3, <2>1 DEF SameRun
  <2> QED  BY <1>1, <1>2, <1>3, <2>2 DEF DeploymentInv, RunInv, SameRun
<1>6. SentInv'
  BY <1>1, <1>2, SentKept DEF DeploymentInv
<1>7. HeldInv'
  BY <1>1, <1>2, <1>3, <1>5, HeldKept DEF DeploymentInv
<1>8. StepsInv'
  BY <1>1, <1>2, <1>5, StepsKept DEF DeploymentInv
<1>9. HandedInv' /\ HousesRun'
  BY <1>4, HousesKept DEF DeploymentInv, HadOwner
<1>10. FailsOnlyWhenDisturbed'
  BY <1>1 DEF FailsOnlyWhenDisturbed
<1> QED  BY <1>4, <1>5, <1>6, <1>7, <1>8, <1>9, <1>10 DEF DeploymentInv

\* A step of the configuration fails.
LEMMA FailKeepsInv ==
  ASSUME DeploymentInv, phase = "configuring", NEW reason, reason # "moved", Fail(reason),
         reason \in {"log", "unregistered"} \/ (reason = "art" /\ disturbed > 0),
         UNCHANGED <<run, chain, ownedBy, images, auctions, minted, disturbed>>
  PROVE  DeploymentInv'
<1>1. phase' = "failed" /\ why' = reason
  BY DEF Fail
<1>2. Grows(chain, chain') /\ SameRun /\ TheTask' = TheTask
  BY GrowsReflexive DEF SameRun, TheTask
<1>3. ChainInv' /\ RunInv'
  BY <1>1, <1>2 DEF DeploymentInv, ChainInv, RunInv, Phases
<1>4. SentInv'
  BY <1>1, <1>2, SentKept DEF DeploymentInv
<1>5. HeldInv' /\ StepsInv'
  BY <1>1 DEF HeldInv, StepsInv
<1>6. HandedInv' /\ HousesRun'
  BY DEF DeploymentInv, HandedInv, HousesRun
<1>7. FailsOnlyWhenDisturbed'
  BY <1>1 DEF FailsOnlyWhenDisturbed
<1> QED  BY <1>3, <1>4, <1>5, <1>6, <1>7 DEF DeploymentInv

\* A part of the art is uploaded; undisturbed, the art accepts it.
LEMMA UploadPartKeepsInv ==
  ASSUME DeploymentInv, UploadPart
  PROVE  DeploymentInv'
<1> DEFINE descriptor == Deployed("NounsDescriptorV2")
<1>1. /\ phase = "configuring" /\ run.step <= Len(Configuration) /\ TheStep.do \in {"put", "page"}
      /\ UNCHANGED <<ownedBy, auctions, minted, configs, disturbed, runs>>
  BY DEF UploadPart, At_step, TheStep
<1>2. /\ IsConfiguration(Configuration, UploadsBy(run.task)) /\ Len(Configuration) \in Nat
      /\ run.step \in 1 .. Len(Configuration)
  BY <1>1, TheConfiguration DEF DeploymentInv
<1>3. CASE Works(descriptor) /\ ownedBy[descriptor] = Deployer
  <2>1. /\ Send(Other) /\ Next_step
        /\ images' = IF TheStep.do = "page" THEN images
                     ELSE images \cup {<<ArtOf(descriptor), TheStep.what, TheStep.from>>}
    BY <1>3 DEF UploadPart
  <2>2. /\ IsChain(chain') /\ Len(chain') = Len(chain) + 1 /\ Grows(chain, chain')
        /\ Len(chain) \in Nat
    BY <2>1, SentAppends DEF DeploymentInv
  <2>4. images \subseteq images'
    BY <2>1
  <2>5. PICK last : last = run.step
    OBVIOUS
  <2>6. StepDone(last)'
    <3>1. /\ Configuration' = Configuration /\ run'.deployment = run.deployment
      BY <2>1 DEF Next_step, Configuration, TheTask, DeploymentInv, RunInv
    <3>2. descriptor \in DOMAIN chain
      BY <1>3, WorksIsFitting DEF ArtFits, Named
    <3>3. descriptor \in DOMAIN chain' /\ chain'[descriptor] = chain[descriptor]
      BY <2>2, <3>2 DEF Grows
    <3>4. TheStep.do = "put" =>
            <<chain'[descriptor].args.art, TheStep.what, TheStep.from>> \in images'
      BY <2>1, <3>3 DEF ArtOf
    <3> QED
      BY <1>1, <2>5, <3>1, <3>3, <3>4 DEF StepDone, StepLeft, TheStep, Deployed
  <2> QED  BY <1>1, <2>1, <2>2, <2>4, <2>5, <2>6, StepKeepsInv
<1>4. CASE ~(Works(descriptor) /\ ownedBy[descriptor] = Deployer)
  <2>1. Fail("art") /\ UNCHANGED <<run, chain, images>>
    BY <1>4 DEF UploadPart
  <2>2. disturbed > 0
    <3> SUFFICES ASSUME disturbed = 0
                 PROVE  FALSE
      BY DEF DeploymentInv, RunInv
    <3>1. /\ "NounsDescriptorV2" \in DOMAIN run.deployment /\ ArtFits(chain, descriptor)
      BY <1>1, ArtReady DEF DeploymentInv
    <3>2. ~HandedYet("NounsDescriptorV2")
      <4> SUFFICES ASSUME NEW i \in 1 .. Len(Configuration), i < run.step,
                          Configuration[i].do = "own"
                   PROVE  FALSE
        BY DEF HandedYet
      <4>1. run.step < i
        BY <1>1, <1>2 DEF IsConfiguration, TheStep
      <4> QED  BY <1>2, <4>1
    <3>3. ownedBy[descriptor] = Deployer
      BY <1>1, <3>1, <3>2 DEF DeploymentInv, HeldInv, Ownable
    <3> QED  BY <1>4, <3>1, <3>3, WorksIsFitting
  <2> QED  BY <1>1, <2>1, <2>2, FailKeepsInv
<1> QED  BY <1>3, <1>4

\* The configuration files are written.
LEMMA WriteConfigsKeepsInv ==
  ASSUME DeploymentInv, NEW governor, WriteConfigs(governor)
  PROVE  DeploymentInv'
<1>1. /\ phase = "configuring" /\ TheStep.do = "configs" /\ Next_step
      /\ UNCHANGED <<chain, ownedBy, images, auctions, minted, disturbed>>
  BY DEF WriteConfigs, At_step, TheStep
<1>2. PICK last : last = run.step
  OBVIOUS
<1>3. StepDone(last)'
  <2>1. Configuration' = Configuration
    BY <1>1 DEF Next_step, Configuration, TheTask, DeploymentInv, RunInv
  <2> QED  BY <1>1, <1>2, <2>1 DEF StepDone, StepLeft, TheStep
<1>4. Grows(chain, chain') /\ Len(chain') \in Nat /\ IsChain(chain')
  BY <1>1, GrowsReflexive, ChainIsASequence DEF DeploymentInv, ChainInv
<1> QED  BY <1>1, <1>2, <1>3, <1>4, StepKeepsInv

\* The log of the deployment is written.
LEMMA WriteDeployLogKeepsInv ==
  ASSUME DeploymentInv, WriteDeployLog
  PROVE  DeploymentInv'
<1>1. /\ phase = "configuring" /\ TheStep.do = "log"
      /\ UNCHANGED <<chain, ownedBy, images, auctions, minted, disturbed>>
      /\ Next_step \/ (Fail("log") /\ UNCHANGED run)
  BY DEF WriteDeployLog, At_step, TheStep
<1>2. CASE Next_step
  <2>1. PICK last : last = run.step
    OBVIOUS
  <2>2. StepDone(last)'
    <3>1. Configuration' = Configuration
      BY <1>2 DEF Next_step, Configuration, TheTask, DeploymentInv, RunInv
    <3> QED  BY <1>1, <2>1, <3>1 DEF StepDone, StepLeft, TheStep
  <2>3. Grows(chain, chain') /\ Len(chain') \in Nat /\ IsChain(chain')
    BY <1>1, GrowsReflexive, ChainIsASequence DEF DeploymentInv, ChainInv
  <2> QED  BY <1>1, <1>2, <2>1, <2>2, <2>3, StepKeepsInv
<1>3. CASE Fail("log") /\ UNCHANGED run
  BY <1>1, <1>3, FailKeepsInv
<1> QED  BY <1>1, <1>2, <1>3

\* The configuration runs a task that is not registered, and fails.
LEMMA RunUnregisteredKeepsInv ==
  ASSUME DeploymentInv, RunUnregistered
  PROVE  DeploymentInv'
<1>1. /\ phase = "configuring" /\ Fail("unregistered")
      /\ UNCHANGED <<run, chain, ownedBy, images, auctions, minted, disturbed>>
  BY DEF RunUnregistered, At_step
<1> QED  BY <1>1, FailKeepsInv

\* A task ends.
LEMMA FinishKeepsInv ==
  ASSUME DeploymentInv, Finish
  PROVE  DeploymentInv'
<1>1. /\ phase = "configuring" /\ run.step > Len(Configuration) /\ phase' = "done"
      /\ UNCHANGED <<run, why, chain, ownedBy, images, auctions, minted, disturbed>>
  BY DEF Finish
<1>2. Grows(chain, chain') /\ SameRun /\ TheTask' = TheTask
  BY <1>1, GrowsReflexive DEF SameRun, TheTask
<1>3. ChainInv' /\ RunInv'
  BY <1>1, <1>2 DEF DeploymentInv, ChainInv, RunInv, Phases
<1>4. SentInv'
  BY <1>1, <1>2, SentKept DEF DeploymentInv
<1>5. HeldInv'
  BY <1>1 DEF HeldInv
<1>6. StepsInv'
  <2>1. PICK last : last = run.step
    OBVIOUS
  <2> QED  BY <1>1, <1>2, <1>3, <2>1, StepsKept DEF DeploymentInv
<1>7. HandedInv' /\ HousesRun'
  BY <1>1 DEF DeploymentInv, HandedInv, HousesRun
<1>8. FailsOnlyWhenDisturbed'
  BY <1>1 DEF FailsOnlyWhenDisturbed
<1> QED  BY <1>3, <1>4, <1>5, <1>6, <1>7, <1>8 DEF DeploymentInv

-----------------------------------------------------------------------------
(* The handover and the auction.                                           *)

\* An address changes hands; everything else stays with its owner.
LEMMA GivenKeepsInv ==
  ASSUME DeploymentInv, ChainInv', Grows(chain, chain'), images \subseteq images',
         auctions \subseteq auctions', minted \subseteq minted',
         NEW e, NEW a, ownedBy' = [ownedBy EXCEPT ![a] = e],
         e > 0 => /\ Wired(chain', e) /\ Belongs(chain', a, e)
                  /\ Named(chain', a, "NounsAuctionHouseProxy") =>
                       RunningHouse(chain', images', auctions', minted', a)
  PROVE  HandedInv' /\ HousesRun'
<1>1. ASSUME NEW b \in DOMAIN ownedBy', ownedBy'[b] > 0, b # a
      PROVE  HadOwner(b) /\ ownedBy'[b] = ownedBy[b]
  BY <1>1 DEF HadOwner, DeploymentInv, ChainInv
<1>2. ASSUME NEW b \in DOMAIN ownedBy', ownedBy'[b] > 0
      PROVE  Wired(chain', ownedBy'[b]) /\ Belongs(chain', b, ownedBy'[b])
  <2>1. CASE b = a
    BY <1>2, <2>1 DEF DeploymentInv, ChainInv
  <2>2. CASE b # a
    <3>1. HadOwner(b) /\ ownedBy'[b] = ownedBy[b]
      BY <1>1, <1>2, <2>2
    <3>2. Wired(chain, ownedBy[b]) /\ Belongs(chain, b, ownedBy[b])
      BY <3>1 DEF HadOwner, DeploymentInv, HandedInv
    <3> QED  BY <3>1, <3>2, WiredStays
  <2> QED  BY <2>1, <2>2
<1>3. ASSUME NEW b \in DOMAIN ownedBy', ownedBy'[b] > 0,
             Named(chain', b, "NounsAuctionHouseProxy")
      PROVE  RunningHouse(chain', images', auctions', minted', b)
  <2>1. CASE b = a
    BY <1>3, <2>1 DEF DeploymentInv, ChainInv
  <2>2. CASE b # a
    <3>1. HadOwner(b)
      BY <1>1, <1>3, <2>2
    <3> QED  BY <1>3, <3>1, HouseKept DEF DeploymentInv
  <2> QED  BY <2>1, <2>2
<1> QED  BY <1>2, <1>3 DEF HandedInv, HousesRun

\* A task that replaces a descriptor sent it, and hands it to the DAO's executor.
LEMMA DescriptorSent ==
  ASSUME ChainInv, RunInv, SentInv, phase \in {"configuring", "done"}, run.task \in DescriptorTasks
  PROVE  "NounsDescriptorV2" \in DOMAIN run.deployment /\ TheExecutor = DaoExecutor
<1> DEFINE c == TheTask.contracts
<1>1. PICK n \in Nat : Sent(n)
  BY DEF SentInv
<1>2. SentTo(c, n, run.deployment, run.base, chain) /\ n = Len(c)
  BY <1>1 DEF Sent
<1>3. /\ \A i \in 1 .. Len(c) : c[i].name # "NounsDAOExecutor"
      /\ \E i \in 1 .. Len(c) : c[i].name = "NounsDescriptorV2"
  BY DescriptorContracts DEF TheTask, ArtLayout
<1> HIDE DEF c
<1>4. "NounsDescriptorV2" \in DOMAIN run.deployment /\ ~Has("NounsDAOExecutor")
  BY <1>2, <1>3 DEF SentTo, Has
<1> QED  BY <1>4 DEF TheExecutor

\* What the contracts of a system are to each other.
LEMMA SystemFacts ==
  ASSUME ChainInv, RunInv, SentInv, phase # "idle", NEW governor, SystemOf(governor)
  PROVE  LET e == Deployed("NounsDAOExecutor")
             token == Deployed("NounsToken")
             house == Deployed("NounsAuctionHouseProxy")
             descriptor == Deployed("NounsDescriptorV2")
         IN /\ TheExecutor = e /\ e \in Nat /\ Wired(chain, e)
            /\ Ownable \subseteq DOMAIN run.deployment
            /\ \A name \in Ownable : Belongs(chain, Deployed(name), e)
            /\ house \in DOMAIN chain /\ chain[house].args.nouns = token
            /\ token \in DOMAIN chain /\ chain[token].args.minter = house
            /\ chain[token].args.descriptor = descriptor /\ ArtFits(chain, descriptor)
            /\ \A name \in Ownable : Named(chain, Deployed(name), name)
<1>1. PICK n \in Nat : SentTo(TheTask.contracts, n, run.deployment, run.base, chain)
  BY DEF SentInv, Sent
<1>2. \A name \in DOMAIN run.deployment :
        Named(chain, Deployed(name), name) /\ Deployed(name) \in Nat
  BY <1>1, PlaceOfSent DEF ChainInv, Deployed
<1>3. /\ Wired(chain, Deployed("NounsDAOExecutor"))
      /\ TokenFor(chain, Deployed("NounsDAOExecutor")) = Deployed("NounsToken")
      /\ HouseFor(chain, Deployed("NounsDAOExecutor")) = Deployed("NounsAuctionHouseProxy")
      /\ DescriptorFor(chain, Deployed("NounsDAOExecutor")) = Deployed("NounsDescriptorV2")
      /\ AdminFor(chain, Deployed("NounsDAOExecutor")) = Deployed("NounsAuctionHouseProxyAdmin")
      /\ Ownable \cup {"NounsDAOExecutor"} \subseteq DOMAIN run.deployment
  BY DEF SystemOf, Assembled, Deployed
<1>4. TheExecutor = Deployed("NounsDAOExecutor")
  BY <1>3 DEF TheExecutor, Has
<1>5. \A name \in Ownable : Belongs(chain, Deployed(name), Deployed("NounsDAOExecutor"))
  BY <1>3 DEF Ownable, Belongs
<1> QED
  BY <1>2, <1>3, <1>4, <1>5 DEF Wired, Named, TokenFor, HouseFor, DescriptorFor, Ownable

\* When a house is unpaused by a task that uploads identifiers its art is complete: every
\* part was counted before.
LEMMA ArtComplete ==
  ASSUME DeploymentInv, phase = "configuring", UploadsBy(run.task) = "put",
         NEW governor, SystemOf(governor),
         NEW i \in 1 .. Len(Configuration), Configuration[i].do = "unpause", i <= run.step
  PROVE  FullArt(chain, images, Deployed("NounsDescriptorV2"))
<1> DEFINE d == Deployed("NounsDescriptorV2")
           art == chain[d].args.art
<1>1. /\ IsConfiguration(Configuration, "put") /\ Len(Configuration) \in Nat
      /\ run.step \in Nat
  BY TheConfiguration DEF DeploymentInv
<1>2. ArtFits(chain, d)
  BY SystemFacts DEF DeploymentInv
<1>3. ASSUME NEW part \in CountedParts
      PROVE  \E j \in images : j[1] = art /\ j[2] = part
  <2>1. PICK k \in 1 .. i - 1 : Configuration[k].do = "put" /\ Configuration[k].what = part
    BY <1>1 DEF IsConfiguration
  <2>2. k \in 1 .. Len(Configuration) /\ k < run.step
    BY <1>1
  <2>3. StepDone(k)
    BY <2>2 DEF DeploymentInv, StepsInv
  <2>4. <<art, part, Configuration[k].from>> \in images
    BY <2>1, <2>3 DEF StepDone, StepLeft, Deployed
  <2>5. /\ <<art, part, Configuration[k].from>>[1] = art
        /\ <<art, part, Configuration[k].from>>[2] = part
    OBVIOUS
  <2> QED  BY <2>4, <2>5
<1> HIDE DEF art, d
<1>4. CountedParts \subseteq {m[2] : m \in {j \in images : j[1] = art}}
  BY <1>3
<1> QED  BY <1>2, <1>4 DEF FullArt, d, art

\* What unpausing in a configuration comes to.  Where identifiers were uploaded it reverts
\* only if the house runs already; where pages were, it leaves a house that can be drawn for
\* or none.
LEMMA UnpauseOutcome ==
  ASSUME DeploymentInv, phase = "configuring", run.step \in 1 .. Len(Configuration),
         TheStep.do = "unpause"
  PROVE  LET house == Deployed("NounsAuctionHouseProxy")
             token == Deployed("NounsToken")
             full == FullArt(chain, images, Deployed("NounsDescriptorV2"))
         IN  /\ run.task \in FullTasks
             /\ ~UnpauseReverts(house) => token \in minted \/ (house \in Unpaused(house) /\ full)
             /\ UnpauseReverts(house) /\ run.task # "cnnouns" => house \in auctions /\ full
<1> DEFINE house == Deployed("NounsAuctionHouseProxy")
           token == Deployed("NounsToken")
           full == FullArt(chain, images, Deployed("NounsDescriptorV2"))
<1>1. /\ Configured(run.task, run.flags, Configuration)
      /\ IsConfiguration(Configuration, UploadsBy(run.task))
      /\ Len(Configuration) \in Nat /\ run.step \in Nat
      /\ run.task \in FullTasks \cup DescriptorTasks
  BY TheConfiguration DEF DeploymentInv
<1>2. run.task \in FullTasks
  BY <1>1 DEF Configured, TheStep
<1>3. PICK governor \in Governors : SystemOf(governor)
  BY <1>2, SystemReady DEF DeploymentInv
<1>4. /\ chain[house].args.nouns = token /\ chain[token].args.minter = house
      /\ chain[token].args.descriptor = Deployed("NounsDescriptorV2")
      /\ "NounsAuctionHouseProxy" \in DOMAIN run.deployment
  BY <1>3, SystemFacts DEF DeploymentInv, Ownable
<1>5. ownedBy[house] = Deployer
  <2>1. ~HandedYet("NounsAuctionHouseProxy")
    <3> SUFFICES ASSUME NEW j \in 1 .. Len(Configuration), j < run.step,
                        Configuration[j].do = "own",
                        Configuration[j].what = "NounsAuctionHouseProxy"
                 PROVE  FALSE
      BY DEF HandedYet
    <3>1. run.step < j
      BY <1>1 DEF IsConfiguration, TheStep
    <3> QED  BY <1>1, <3>1
  <2> QED  BY <1>4, <2>1 DEF DeploymentInv, HeldInv, Ownable
<1>6. CanMint(token) <=> full
  BY <1>4, WorksIsFitting
<1>7. ASSUME ~UnpauseReverts(house)
      PROVE  token \in minted \/ (house \in Unpaused(house) /\ full)
  <2>1. CASE token \in minted
    BY <2>1
  <2>2. CASE token \notin minted
    <3>1. MinterOf(token) = house
      BY <1>4, <2>2 DEF MinterOf
    <3>2. CanMint(token)
      BY <1>4, <1>7, <3>1 DEF UnpauseReverts
    <3> QED  BY <1>4, <1>6, <3>1, <3>2 DEF Unpaused
  <2> QED  BY <2>1, <2>2
<1>8. ASSUME UnpauseReverts(house), run.task # "cnnouns"
      PROVE  house \in auctions /\ full
  <2>1. UploadsBy(run.task) = "put"
    BY <1>2, <1>8 DEF UploadsBy, FullTasks
  <2>2. full
    <3>1. run.step <= run.step
      BY <1>1
    <3> QED  BY <1>3, <2>1, <3>1, ArtComplete DEF TheStep
  <2>3. CanMint(token)
    BY <1>6, <2>2
  <2> QED  BY <1>4, <1>5, <1>8, <2>2, <2>3 DEF UnpauseReverts
<1> QED  BY <1>2, <1>7, <1>8

\* The auction a task waits for does not start: it is that of cnnouns, told to start it.
LEMMA UnpauseFailsKeepsInv ==
  ASSUME DeploymentInv, phase = "configuring", Fail("unpause"), Send(Other),
         run.task = "cnnouns", run.flags.startAuction,
         UNCHANGED <<run, ownedBy, images, auctions, minted, disturbed>>
  PROVE  DeploymentInv'
<1>1. phase' = "failed" /\ why' = "unpause"
  BY DEF Fail
<1>2. /\ IsChain(chain') /\ Len(chain') = Len(chain) + 1 /\ Grows(chain, chain')
      /\ DOMAIN chain \subseteq DOMAIN chain' /\ Len(chain) \in Nat
  BY SentAppends DEF DeploymentInv
<1>3. SameRun /\ TheTask' = TheTask
  BY DEF SameRun, TheTask
<1>4. ChainInv'
  BY <1>2 DEF DeploymentInv, ChainInv
<1>5. RunInv'
  BY <1>1, <1>2, <1>3 DEF DeploymentInv, RunInv, Phases
<1>6. SentInv'
  BY <1>1, <1>2, <1>3, SentKept DEF DeploymentInv
<1>7. HeldInv' /\ StepsInv'
  BY <1>1 DEF HeldInv, StepsInv
<1>8. HandedInv' /\ HousesRun'
  BY <1>2, <1>4, HousesKept DEF DeploymentInv, HadOwner
<1>9. FailsOnlyWhenDisturbed'
  BY <1>1 DEF FailsOnlyWhenDisturbed
<1> QED  BY <1>4, <1>5, <1>6, <1>7, <1>8, <1>9 DEF DeploymentInv

\* The house is unpaused, or was, or the task fails.
LEMMA UnpauseHouseKeepsInv ==
  ASSUME DeploymentInv, UnpauseHouse
  PROVE  DeploymentInv'
<1> DEFINE house == Deployed("NounsAuctionHouseProxy")
           token == Deployed("NounsToken")
           full == FullArt(chain, images, Deployed("NounsDescriptorV2"))
<1>1. /\ phase = "configuring" /\ run.step <= Len(Configuration) /\ TheStep.do = "unpause"
      /\ auctions' = IF UnpauseReverts(house) THEN auctions ELSE Unpaused(house)
      /\ Send(Other)
      /\ IF UnpauseReverts(house) /\ TheTask.waits
         THEN Fail("unpause") /\ UNCHANGED run
         ELSE Next_step
      /\ UNCHANGED <<ownedBy, images, minted, configs, disturbed, runs>>
  BY DEF UnpauseHouse, At_step, TheStep
<1>2. /\ run.step \in 1 .. Len(Configuration)
      /\ Configured(run.task, run.flags, Configuration)
  BY <1>1, TheConfiguration DEF DeploymentInv
<1>3. /\ run.task \in FullTasks
      /\ ~UnpauseReverts(house) => token \in minted \/ (house \in Unpaused(house) /\ full)
      /\ UnpauseReverts(house) /\ run.task # "cnnouns" => house \in auctions /\ full
  BY <1>1, <1>2, UnpauseOutcome
<1>4. run.task = "cnnouns" => TheTask.waits /\ run.flags.startAuction
  <2>1. run.task = "cnnouns" => TheTask.waits
    BY DEF TheTask, Tasks, Task
  <2>2. run.task = "cnnouns" => run.flags.startAuction
    BY <1>1, <1>2 DEF Configured, TheStep
  <2> QED  BY <2>1, <2>2
<1>5. CASE UnpauseReverts(house) /\ TheTask.waits
  <2>1. run.task \in {"cnnouns", "nigi"}
    BY <1>3, <1>5, TasksThatWait DEF TheTask
  <2>2. run.task # "nigi"
    BY <1>1, <1>2 DEF Configured, TheStep
  <2>3. run.task = "cnnouns" /\ run.flags.startAuction
    BY <1>4, <2>1, <2>2
  <2>4. Fail("unpause") /\ UNCHANGED run /\ auctions' = auctions
    BY <1>1, <1>5
  <2> QED  BY <1>1, <2>3, <2>4, UnpauseFailsKeepsInv
<1>6. CASE ~(UnpauseReverts(house) /\ TheTask.waits)
  <2>1. Next_step
    BY <1>1, <1>6
  <2>2. auctions \subseteq auctions'
    BY <1>1 DEF Unpaused
  <2>3. /\ IsChain(chain') /\ Len(chain') = Len(chain) + 1 /\ Grows(chain, chain')
        /\ Len(chain) \in Nat
    BY <1>1, SentAppends DEF DeploymentInv
  <2>4. token \in minted \/ (house \in auctions' /\ full)
    <3>1. CASE UnpauseReverts(house)
      BY <1>1, <1>3, <1>4, <1>6, <3>1
    <3>2. CASE ~UnpauseReverts(house)
      BY <1>1, <1>3, <3>2
    <3> QED  BY <3>1, <3>2
  <2>5. full => FullArt(chain', images', Deployed("NounsDescriptorV2"))
    BY <1>1, <2>3, FullArtStays
  <2>6. PICK last : last = run.step
    OBVIOUS
  <2>7. StepDone(last)'
    <3>1. Configuration' = Configuration /\ run'.deployment = run.deployment
      BY <2>1 DEF Next_step, Configuration, TheTask, DeploymentInv, RunInv
    <3>2. Configuration'[last].do = "unpause"
      BY <1>1, <2>6, <3>1 DEF TheStep
    <3>3. \/ token \in minted'
          \/ house \in auctions' /\ FullArt(chain', images', Deployed("NounsDescriptorV2"))
      BY <1>1, <2>4, <2>5
    <3> QED  BY <3>1, <3>2, <3>3 DEF StepDone, StepLeft, Deployed
  <2>8. Len(chain') \in Nat /\ Len(chain) <= Len(chain') /\ images \subseteq images'
    BY <1>1, <2>3
  <2> QED  BY <1>1, <2>1, <2>2, <2>3, <2>6, <2>7, <2>8, StepKeepsInv
<1> QED  BY <1>5, <1>6

\* A contract is handed over: it belongs to the system of the executor, and a house has been
\* unpaused on complete art.
LEMMA TransferOwnershipKeepsInv ==
  ASSUME DeploymentInv, TransferOwnership
  PROVE  DeploymentInv'
<1> DEFINE name == TheStep.what
           a == Deployed(name)
           e == TheExecutor
<1>1. /\ phase = "configuring" /\ run.step <= Len(Configuration) /\ TheStep.do = "own"
      /\ UNCHANGED <<images, auctions, minted, configs, disturbed, runs>>
  BY DEF TransferOwnership, At_step, TheStep
<1>2. /\ Configured(run.task, run.flags, Configuration)
      /\ IsConfiguration(Configuration, UploadsBy(run.task))
      /\ Len(Configuration) \in Nat /\ run.step \in 1 .. Len(Configuration)
      /\ run.task \in FullTasks \cup DescriptorTasks
  BY <1>1, TheConfiguration DEF DeploymentInv
<1>3. name \in Ownable
  BY <1>1, <1>2 DEF IsConfiguration, TheStep
<1>4. name \in DOMAIN run.deployment /\ e \in Int
  <2>1. CASE run.task \in FullTasks
    <3>1. PICK governor \in Governors : SystemOf(governor)
      BY <1>1, <2>1, SystemReady DEF DeploymentInv
    <3> QED  BY <1>1, <1>3, <3>1, SystemFacts DEF DeploymentInv
  <2>2. CASE run.task \in DescriptorTasks
    <3>1. name = "NounsDescriptorV2"
      BY <1>1, <1>2, <2>2 DEF Configured, TheStep
    <3> QED  BY <1>1, <2>2, <3>1, DescriptorSent DEF DeploymentInv, DaoExecutor
  <2> QED  BY <1>2, <2>1, <2>2
<1>5. a \in DOMAIN ownedBy /\ ownedBy[a] = Deployer
  <2>1. ~HandedYet(name)
    <3> SUFFICES ASSUME NEW i \in 1 .. Len(Configuration), i < run.step,
                        Configuration[i].do = "own", Configuration[i].what = name
                 PROVE  FALSE
      BY DEF HandedYet
    <3>1. i = run.step
      BY <1>1, <1>2 DEF IsConfiguration, TheStep
    <3> QED  BY <1>2, <3>1
  <2> QED  BY <1>1, <1>3, <1>4, <2>1 DEF DeploymentInv, HeldInv
<1>6. Send(Other) /\ Next_step /\ ownedBy' = [ownedBy EXCEPT ![a] = e]
  BY <1>5 DEF TransferOwnership
<1>7. /\ IsChain(chain') /\ Len(chain') = Len(chain) + 1 /\ Grows(chain, chain')
      /\ DOMAIN chain \subseteq DOMAIN chain' /\ Len(chain) \in Nat
  BY <1>6, SentAppends DEF DeploymentInv
<1>8. /\ phase' = phase /\ why' = why /\ SameRun /\ DOMAIN run' = DOMAIN run
      /\ run'.terms = run.terms /\ run'.step = run.step + 1
      /\ TheTask' = TheTask /\ Configuration' = Configuration
  BY <1>6 DEF Next_step, SameRun, Configuration, TheTask, DeploymentInv, RunInv
<1>9. TheExecutor' = e /\ \A n : Deployed(n)' = Deployed(n)
  BY <1>8 DEF TheExecutor, Has, Deployed, SameRun
<1> HIDE DEF name, a, e
<1>10. /\ DOMAIN ownedBy' = DOMAIN ownedBy /\ ownedBy'[a] = e
       /\ \A b \in DOMAIN ownedBy : b # a => ownedBy'[b] = ownedBy[b]
  BY <1>5, <1>6
<1>11. ChainInv'
  <2>1. ownedBy' \in [DOMAIN ownedBy' -> Int]
    BY <1>4, <1>6, <1>10 DEF DeploymentInv, ChainInv
  <2> QED  BY <1>1, <1>7, <1>10, <2>1 DEF DeploymentInv, ChainInv
<1>12. RunInv'
  BY <1>1, <1>7, <1>8 DEF DeploymentInv, RunInv, SameRun
<1>13. SentInv'
  BY <1>1, <1>7, <1>8, SentKept DEF DeploymentInv
<1>14. HeldInv'
  <2> SUFFICES ASSUME NEW n \in Ownable, n \in DOMAIN run.deployment
               PROVE  /\ Deployed(n) \in DOMAIN ownedBy'
                      /\ ~HandedYet(n)' => ownedBy'[Deployed(n)] = Deployer
    BY <1>8, <1>9 DEF HeldInv, SameRun
  <2>1. Deployed(n) \in DOMAIN ownedBy /\ (~HandedYet(n) => ownedBy[Deployed(n)] = Deployer)
    BY <1>1 DEF DeploymentInv, HeldInv
  <2>2. CASE n = name
    <3>1. HandedYet(n)'
      BY <1>1, <1>2, <1>8, <2>2 DEF HandedYet, TheStep, name
    <3> QED  BY <1>10, <2>1, <3>1
  <2>3. CASE n # name
    <3>1. HandedYet(n) => HandedYet(n)'
      <4> SUFFICES ASSUME NEW i \in 1 .. Len(Configuration), i < run.step,
                          Configuration[i].do = "own", Configuration[i].what = n
                   PROVE  HandedYet(n)'
        BY DEF HandedYet
      <4>1. i < run'.step
        BY <1>2, <1>8
      <4> QED  BY <1>1, <1>8, <4>1 DEF HandedYet
    <3>2. Deployed(n) # a
      <4>1. PICK k \in Nat : SentTo(TheTask.contracts, k, run.deployment, run.base, chain)
        BY <1>1 DEF DeploymentInv, SentInv, Sent
      <4>2. IsList(TheTask.contracts) /\ run.base \in Nat /\ IsChain(chain)
        BY <1>1, AllListed DEF DeploymentInv, RunInv, ChainInv, TheTask
      <4> QED  BY <1>4, <2>3, <4>1, <4>2, PlacesApart DEF Deployed, a
    <3> QED  BY <1>10, <2>1, <3>1, <3>2
  <2> QED  BY <2>2, <2>3
<1>15. \A b \in DOMAIN ownedBy : b \in DOMAIN ownedBy' /\ ownedBy'[b] \in {ownedBy[b], TheExecutor}
  BY <1>10 DEF e
<1>16. StepsInv'
  <2>1. PICK last : last = run.step
    OBVIOUS
  <2>2. StepDone(last)'
    BY <1>1, <1>5, <1>8, <1>9, <1>10, <2>1
       DEF StepDone, StepLeft, TheStep, Deployed, SameRun, name, a
  <2> QED  BY <1>1, <1>7, <1>8, <1>12, <1>15, <2>1, <2>2, StepsKept DEF DeploymentInv
<1>17. ASSUME e > 0
       PROVE  /\ Wired(chain', e) /\ Belongs(chain', a, e)
              /\ Named(chain', a, "NounsAuctionHouseProxy") =>
                   RunningHouse(chain', images', auctions', minted', a)
  <2>1. run.task \in FullTasks
    BY <1>1, <1>2, <1>17, DescriptorSent DEF DeploymentInv, DaoExecutor, e
  <2>2. PICK governor \in Governors : SystemOf(governor)
    BY <1>1, <2>1, SystemReady DEF DeploymentInv
  <2>3. Wired(chain, e) /\ Belongs(chain, a, e) /\ Named(chain, a, name)
    BY <1>1, <1>3, <2>2, SystemFacts DEF DeploymentInv, a, e
  <2>4. Wired(chain', e) /\ Belongs(chain', a, e)
    BY <1>7, <2>3, WiredStays
  <2>5. ASSUME Named(chain', a, "NounsAuctionHouseProxy")
        PROVE  RunningHouse(chain', images', auctions', minted', a)
    <3>1. name = "NounsAuctionHouseProxy"
      BY <1>7, <2>3, <2>5 DEF Named, Grows
    <3>2. PICK i \in 1 .. run.step - 1 : Configuration[i].do = "unpause"
      BY <1>1, <1>2, <3>1 DEF IsConfiguration, TheStep, name
    <3>3. i \in 1 .. Len(Configuration) /\ i < run.step
      BY <1>2
    <3>4. StepDone(i)
      BY <1>1, <3>3 DEF DeploymentInv, StepsInv
    <3>5. \/ Deployed("NounsToken") \in minted
          \/ a \in auctions /\ FullArt(chain, images, Deployed("NounsDescriptorV2"))
      BY <3>1, <3>2, <3>4 DEF StepDone, StepLeft, Deployed, a
    <3>7. /\ chain[a].args.nouns = Deployed("NounsToken")
          /\ chain[Deployed("NounsToken")].args.descriptor = Deployed("NounsDescriptorV2")
      BY <1>1, <2>2, <3>1, SystemFacts DEF DeploymentInv, a
    <3>8. RunningHouse(chain, images, auctions, minted, a)
      BY <3>5, <3>7 DEF RunningHouse
    <3> QED  BY <1>1, <1>7, <2>3, <3>1, <3>8, RunningStays
  <2> QED  BY <2>4, <2>5
<1>18. HandedInv' /\ HousesRun'
  BY <1>1, <1>6, <1>7, <1>11, <1>17, GivenKeepsInv
<1>19. FailsOnlyWhenDisturbed'
  BY <1>1, <1>8 DEF FailsOnlyWhenDisturbed
<1> QED  BY <1>11, <1>12, <1>13, <1>14, <1>16, <1>18, <1>19 DEF DeploymentInv

\* The auction is started by hand, after a task that did not.
LEMMA startAuctionKeepsInv ==
  ASSUME DeploymentInv, startAuction
  PROVE  DeploymentInv'
<1> DEFINE house == Deployed("NounsAuctionHouseProxy")
           token == Deployed("NounsToken")
           e == TheExecutor
<1>1. /\ ByHand /\ phase \in {"done", "failed"} /\ ~UnpauseReverts(house)
      /\ auctions' = Unpaused(house) /\ ownedBy' = [ownedBy EXCEPT ![house] = e] /\ Send(Other)
      /\ UNCHANGED <<run, phase, why, images, minted, configs, disturbed, runs>>
  BY DEF startAuction, ByHand
<1>2. PICK governor \in Governors : SystemOf(governor)
  BY <1>1, SystemReady DEF DeploymentInv
<1>3. /\ e \in Nat /\ Wired(chain, e) /\ Belongs(chain, house, e)
      /\ Named(chain, house, "NounsAuctionHouseProxy") /\ chain[house].args.nouns = token
      /\ chain[token].args.minter = house
  BY <1>1, <1>2, SystemFacts DEF DeploymentInv, Ownable
<1>4. auctions \subseteq auctions'
  BY <1>1 DEF Unpaused
<1>5. /\ IsChain(chain') /\ Len(chain') = Len(chain) + 1 /\ Grows(chain, chain')
      /\ DOMAIN chain \subseteq DOMAIN chain' /\ Len(chain) \in Nat
  BY <1>1, SentAppends DEF DeploymentInv
<1>6. SameRun /\ TheTask' = TheTask
  BY <1>1 DEF SameRun, TheTask
<1> HIDE DEF house, token, e
<1>7. /\ ownedBy' \in [DOMAIN ownedBy -> Int] /\ DOMAIN ownedBy' = DOMAIN ownedBy
      /\ \A b \in DOMAIN ownedBy : b \in DOMAIN ownedBy' /\ ownedBy'[b] \in {ownedBy[b], e}
  <2>1. ownedBy \in [DOMAIN ownedBy -> Int] /\ e \in Int
    BY <1>3 DEF DeploymentInv, ChainInv
  <2>2. ownedBy' = [ownedBy EXCEPT ![house] = e]
    BY <1>1
  <2>3. DOMAIN ownedBy' = DOMAIN ownedBy
    BY <2>1, <2>2
  <2>4. \A b \in DOMAIN ownedBy : ownedBy'[b] \in {ownedBy[b], e}
    BY <2>1, <2>2
  <2>5. ownedBy' \in [DOMAIN ownedBy -> Int]
    BY <2>1, <2>2
  <2> QED  BY <2>3, <2>4, <2>5
<1>8. ChainInv'
  BY <1>1, <1>5, <1>7 DEF DeploymentInv, ChainInv
<1>9. RunInv'
  BY <1>1, <1>5, <1>6 DEF DeploymentInv, RunInv
<1>10. SentInv'
  BY <1>1, <1>5, <1>6, SentKept DEF DeploymentInv
<1>11. HeldInv'
  BY <1>1 DEF HeldInv
<1>12. StepsInv'
  <2>1. PICK last : last = run.step
    OBVIOUS
  <2> QED  BY <1>1, <1>4, <1>5, <1>6, <1>7, <1>9, <2>1, StepsKept DEF DeploymentInv, e
<1>13. HandedInv' /\ HousesRun'
  <2>1. RunningHouse(chain, images, auctions', minted, house)
    <3>1. CASE token \in minted
      BY <1>3, <3>1 DEF RunningHouse
    <3>2. CASE token \notin minted
      <4>1. MinterOf(token) = house
        BY <1>3, <3>2 DEF MinterOf
      <4>2. house \in auctions' /\ CanMint(token)
        BY <1>1, <1>3, <4>1 DEF Unpaused, UnpauseReverts
      <4> QED  BY <1>3, <4>2, WorksIsFitting DEF RunningHouse
    <3> QED  BY <3>1, <3>2
  <2>3. RunningHouse(chain', images', auctions', minted', house)
    BY <1>1, <1>3, <1>5, <2>1, RunningStays
  <2>4. Wired(chain', e) /\ Belongs(chain', house, e)
    BY <1>3, <1>5, WiredStays
  <2> QED  BY <1>1, <1>4, <1>5, <1>8, <2>3, <2>4, GivenKeepsInv
<1>14. FailsOnlyWhenDisturbed'
  BY <1>1 DEF DeploymentInv, FailsOnlyWhenDisturbed
<1> QED  BY <1>8, <1>9, <1>10, <1>11, <1>12, <1>13, <1>14 DEF DeploymentInv

\* The deployer makes itself the minter, and mints.
LEMMA mintNigiNounKeepsInv ==
  ASSUME DeploymentInv, mintNigiNoun
  PROVE  DeploymentInv'
<1>1. /\ phase \in {"done", "failed"} /\ Send(Other) /\ minted \subseteq minted'
      /\ UNCHANGED <<run, phase, why, ownedBy, images, auctions, configs, disturbed, runs>>
  BY DEF mintNigiNoun, ByHand
<1>2. /\ IsChain(chain') /\ Len(chain') = Len(chain) + 1 /\ Grows(chain, chain')
      /\ DOMAIN chain \subseteq DOMAIN chain' /\ Len(chain) \in Nat
  BY <1>1, SentAppends DEF DeploymentInv
<1>3. SameRun /\ TheTask' = TheTask
  BY <1>1 DEF SameRun, TheTask
<1>4. ChainInv' /\ RunInv'
  BY <1>1, <1>2, <1>3 DEF DeploymentInv, ChainInv, RunInv
<1>5. SentInv'
  BY <1>1, <1>2, <1>3, SentKept DEF DeploymentInv
<1>6. HeldInv'
  BY <1>1 DEF HeldInv
<1>7. StepsInv'
  <2>1. PICK last : last = run.step
    OBVIOUS
  <2> QED  BY <1>1, <1>2, <1>3, <1>4, <2>1, StepsKept DEF DeploymentInv
<1>8. HandedInv' /\ HousesRun'
  BY <1>1, <1>2, <1>4, HousesKept DEF DeploymentInv, HadOwner
<1>9. FailsOnlyWhenDisturbed'
  BY <1>1 DEF DeploymentInv, FailsOnlyWhenDisturbed
<1> QED  BY <1>4, <1>5, <1>6, <1>7, <1>8, <1>9 DEF DeploymentInv

\* The deployments of every task.
LEMMA ConstructionKeepsInv ==
  ASSUME DeploymentInv,
         deploy \/ deployShortTimes \/ deployShortTimesDaov1 \/ cnnounsDeploy \/ nigiDeploy
           \/ deployLocal \/ deployDescriptorV2 \/ cnnounsDeployDescriptorV2
           \/ nigiDeployDescriptorV2
  PROVE  DeploymentInv'
<1>1. SendContract
  BY DEF deploy, deployShortTimes, deployShortTimesDaov1, cnnounsDeploy, nigiDeploy, deployLocal,
         deployDescriptorV2, cnnounsDeployDescriptorV2, nigiDeployDescriptorV2
<1> QED  BY <1>1, SendContractKeepsInv

\* Every action.
LEMMA DeploymentNextKeepsInv ==
  ASSUME DeploymentInv, ConfirmedInv, [DeploymentNext]_deploymentVars
  PROVE  DeploymentInv'
<1>1. ASSUME NEW task \in TaskNames, NEW network \in Networks, NEW flags \in FlagSets,
             Start(task, network, flags)
      PROVE  DeploymentInv'
  BY <1>1, StartKeepsInv
<1>2. CASE deploy \/ deployShortTimes \/ deployShortTimesDaov1 \/ cnnounsDeploy \/ nigiDeploy
             \/ deployLocal \/ deployDescriptorV2 \/ cnnounsDeployDescriptorV2
             \/ nigiDeployDescriptorV2
  BY <1>2, ConstructionKeepsInv
<1>3. CASE Return
  BY <1>3, ReturnKeepsInv
<1>4. CASE UploadPart
  BY <1>4, UploadPartKeepsInv
<1>5. CASE TransferOwnership
  BY <1>5, TransferOwnershipKeepsInv
<1>6. CASE UnpauseHouse
  BY <1>6, UnpauseHouseKeepsInv
<1>7. CASE updateConfigs \/ updateConfigsDaov2
  BY <1>7, WriteConfigsKeepsInv DEF updateConfigs, updateConfigsDaov2
<1>8. CASE WriteDeployLog
  BY <1>8, WriteDeployLogKeepsInv
<1>9. CASE RunUnregistered
  BY <1>9, RunUnregisteredKeepsInv
<1>10. CASE Finish
  BY <1>10, FinishKeepsInv
<1>11. CASE nigiStartAuction \/ cnnounsStartAuction
  BY <1>11, startAuctionKeepsInv DEF nigiStartAuction, cnnounsStartAuction
<1>12. CASE mintNigiNoun
  BY <1>12, mintNigiNounKeepsInv
<1>13. CASE ForeignTransaction
  BY <1>13, ForeignTransactionKeepsInv
<1>14. CASE TransactionFails
  BY <1>14, TransactionFailsKeepsInv
<1>15. CASE UNCHANGED deploymentVars
  <2>1. /\ UNCHANGED <<run, phase, why, chain, ownedBy, images, auctions, minted, disturbed>>
    BY <1>15 DEF deploymentVars
  <2> QED
    <3>1. ChainInv' /\ HandedInv' /\ HousesRun'
      BY <2>1 DEF DeploymentInv, ChainInv, HandedInv, HousesRun
    <3>2. /\ TheTask' = TheTask /\ Configuration' = Configuration /\ TheExecutor' = TheExecutor
          /\ \A name : Deployed(name)' = Deployed(name)
      BY <2>1 DEF TheTask, Configuration, TheExecutor, Has, Deployed
    <3>3. RunInv' /\ FailsOnlyWhenDisturbed'
      BY <2>1, <3>2 DEF DeploymentInv, RunInv, FailsOnlyWhenDisturbed
    <3>4. SentInv'
      <4>1. \A n : Sent(n) => Sent(n)'
        BY <2>1, <3>2 DEF Sent, AtPlace
      <4> QED  BY <2>1, <4>1 DEF DeploymentInv, SentInv
    <3>5. HeldInv'
      <4>1. \A name : HandedYet(name)' <=> HandedYet(name)
        BY <2>1, <3>2 DEF HandedYet
      <4> QED  BY <2>1, <3>2, <4>1 DEF DeploymentInv, HeldInv
    <3>6. StepsInv'
      <4>1. \A i : StepDone(i) => StepDone(i)'
        BY <2>1, <3>2 DEF StepDone
      <4> QED  BY <2>1, <3>2, <4>1 DEF DeploymentInv, StepsInv
    <3> QED  BY <3>1, <3>3, <3>4, <3>5, <3>6 DEF DeploymentInv
<1> QED
  BY <1>1, <1>2, <1>3, <1>4, <1>5, <1>6, <1>7, <1>8, <1>9, <1>10, <1>11, <1>12, <1>13, <1>14,
     <1>15 DEF DeploymentNext

\* What was seen mined stays on the chain, which only grows, and no task ends on more.
LEMMA ConfirmedStays ==
  ASSUME DeploymentInv, ConfirmedInv, [DeploymentNext]_deploymentVars
  PROVE  ConfirmedInv'
<1>1. Len(chain) \in Nat
  BY ChainIsASequence DEF DeploymentInv, ChainInv
<1>2. ASSUME NEW entry, Send(entry), NEW awaited, Confirm(awaited)
      PROVE  ConfirmedInv'
  <2>1. Len(chain') = Len(chain) + 1
    BY <1>2, SentAppends DEF DeploymentInv
  <2>2. confirmed' = confirmed \/ confirmed' = Len(chain')
    BY <1>2 DEF Confirm
  <2> QED  BY <1>1, <2>1, <2>2 DEF ConfirmedInv
<1>3. ASSUME UNCHANGED <<chain, confirmed>>
      PROVE  ConfirmedInv'
  BY <1>3 DEF ConfirmedInv
<1>4. ASSUME NEW task \in TaskNames, NEW network \in Networks, NEW flags \in FlagSets,
             Start(task, network, flags)
      PROVE  ConfirmedInv'
  <2>1. UNCHANGED <<chain, confirmed>>
    BY <1>4 DEF Start
  <2> QED  BY <1>3, <2>1
<1>5. CASE deploy \/ deployShortTimes \/ deployShortTimesDaov1 \/ cnnounsDeploy \/ nigiDeploy
             \/ deployLocal \/ deployDescriptorV2 \/ cnnounsDeployDescriptorV2
             \/ nigiDeployDescriptorV2
  <2>1. SendContract
    BY <1>5 DEF deploy, deployShortTimes, deployShortTimesDaov1, cnnounsDeploy, nigiDeploy,
                deployLocal, deployDescriptorV2, cnnounsDeployDescriptorV2,
                nigiDeployDescriptorV2
  <2>2. UNCHANGED <<chain, confirmed>> \/ \E entry, awaited : Send(entry) /\ Confirm(awaited)
    BY <2>1 DEF SendContract
  <2> QED  BY <1>2, <1>3, <2>2
<1>6. CASE Return
  <2>1. chain' = chain /\ confirmed' = Len(chain)
    BY <1>6 DEF Return
  <2> QED  BY <1>1, <2>1 DEF ConfirmedInv
<1>7. CASE UploadPart
  <2>1. UNCHANGED <<chain, confirmed>> \/ \E awaited : Send(Other) /\ Confirm(awaited)
    BY <1>7 DEF UploadPart
  <2> QED  BY <1>2, <1>3, <2>1
<1>8. CASE TransferOwnership
  <2>1. UNCHANGED <<chain, confirmed>> \/ \E awaited : Send(Other) /\ Confirm(awaited)
    BY <1>8 DEF TransferOwnership
  <2> QED  BY <1>2, <1>3, <2>1
<1>9. CASE UnpauseHouse
  <2>1. Send(Other) /\ Confirm(TheTask.waits)
    BY <1>9 DEF UnpauseHouse
  <2> QED  BY <1>2, <2>1
<1>10. CASE updateConfigs \/ updateConfigsDaov2 \/ WriteDeployLog \/ RunUnregistered \/ Finish
  <2>1. UNCHANGED <<chain, confirmed>>
    BY <1>10 DEF updateConfigs, updateConfigsDaov2, WriteConfigs, WriteDeployLog,
                 RunUnregistered, Finish
  <2> QED  BY <1>3, <2>1
<1>11. CASE nigiStartAuction \/ cnnounsStartAuction
  <2>1. Send(Other) /\ Confirm(TRUE)
    BY <1>11 DEF nigiStartAuction, cnnounsStartAuction, startAuction
  <2> QED  BY <1>2, <2>1
<1>12. CASE mintNigiNoun
  <2>1. Send(Other) /\ Confirm(TRUE)
    BY <1>12 DEF mintNigiNoun
  <2> QED  BY <1>2, <2>1
<1>13. CASE ForeignTransaction
  <2>1. Send(Other) /\ confirmed' = confirmed
    BY <1>13 DEF ForeignTransaction
  <2>2. Len(chain') = Len(chain) + 1
    BY <2>1, SentAppends DEF DeploymentInv
  <2> QED  BY <1>1, <2>1, <2>2 DEF ConfirmedInv
<1>14. CASE TransactionFails
  <2>1. /\ chain' = chain
        /\ \/ confirmed' = confirmed
           \/ run.base < confirmed /\ confirmed' = confirmed - 1
    BY <1>14 DEF TransactionFails
  <2>2. run.base \in Nat
    BY <1>14 DEF TransactionFails, DeploymentInv, RunInv
  <2> QED  BY <1>1, <2>1, <2>2 DEF ConfirmedInv
<1>15. CASE UNCHANGED deploymentVars
  <2>1. UNCHANGED <<chain, confirmed>>
    BY <1>15 DEF deploymentVars
  <2> QED  BY <1>3, <2>1
<1> QED
  BY <1>4, <1>5, <1>6, <1>7, <1>8, <1>9, <1>10, <1>11, <1>12, <1>13, <1>14, <1>15
     DEF DeploymentNext

\* The initial state.
LEMMA DeploymentInitInv ==
  ASSUME DeploymentInit
  PROVE  DeploymentInv
<1>1. /\ phase = "idle" /\ why = "" /\ chain = <<>> /\ ownedBy = [a \in {} |-> Deployer]
      /\ images = {} /\ disturbed = 0
      /\ DOMAIN run = {"task", "flags", "weth", "terms", "base", "step", "deployment"}
  BY DEF DeploymentInit
<1>2. ChainInv
  <2> DEFINE S == {chain[i] : i \in DOMAIN chain}
  <2>1. <<>> \in Seq(S)
    OBVIOUS
  <2>2. DOMAIN ownedBy = {} /\ ownedBy \in [DOMAIN ownedBy -> Int]
    BY <1>1
  <2> QED  BY <1>1, <2>1, <2>2 DEF ChainInv, IsChain
<1>3. RunInv
  BY <1>1 DEF RunInv, Phases
<1>4. SentInv /\ HeldInv /\ StepsInv /\ FailsOnlyWhenDisturbed
  BY <1>1 DEF SentInv, HeldInv, StepsInv, FailsOnlyWhenDisturbed
<1>5. HandedInv /\ HousesRun
  BY <1>1 DEF HandedInv, HousesRun
<1> QED  BY <1>2, <1>3, <1>4, <1>5 DEF DeploymentInv

-----------------------------------------------------------------------------
(* The theorems.                                                           *)

\* The inductive invariant, with what was seen mined, holds in every reachable state.
THEOREM DeploymentInvariant == DeploymentSpec => [](DeploymentInv /\ ConfirmedInv)
<1>1. DeploymentInit => DeploymentInv /\ ConfirmedInv
  <2>1. DeploymentInit => ConfirmedInv
    <3>1. DeploymentInit => chain = <<>> /\ confirmed = 0
      BY DEF DeploymentInit
    <3>2. Len(<<>>) = 0
      OBVIOUS
    <3> QED  BY <3>1, <3>2 DEF ConfirmedInv
  <2> QED  BY <2>1, DeploymentInitInv
<1>2. DeploymentInv /\ ConfirmedInv /\ [DeploymentNext]_deploymentVars
        => DeploymentInv' /\ ConfirmedInv'
  BY DeploymentNextKeepsInv, ConfirmedStays
<1> QED  BY <1>1, <1>2, PTL DEF DeploymentSpec

\* What the verifying tasks find when a task that waits is done.
LEMMA VerifiedOnceDone ==
  ASSUME DeploymentInv, phase = "done", TheTask.waits, Has("NounsAuctionHouseProxy")
  PROVE  VerifiedWhenDone
<1> DEFINE made == run.deployment
           e == made["NounsDAOExecutor"]
<1>1. /\ Configured(run.task, run.flags, Configuration) /\ Len(Configuration) \in Nat
      /\ run.step \in Nat /\ run.task \in FullTasks \cup DescriptorTasks
  BY TheConfiguration DEF DeploymentInv
<1>2. run.task \in FullTasks
  <2> SUFFICES ASSUME run.task \in DescriptorTasks
               PROVE  FALSE
    BY <1>1
  <2>1. PICK n \in Nat : SentTo(TheTask.contracts, n, made, run.base, chain)
    BY DEF DeploymentInv, SentInv, Sent
  <2>2. PICK i \in 1 .. n : TheTask.contracts[i].name = "NounsAuctionHouseProxy"
    BY <2>1 DEF SentTo, Has
  <2>3. i \in 1 .. Len(TheTask.contracts)
    BY <2>1 DEF SentTo
  <2> QED  BY <2>2, <2>3, DescriptorContracts DEF TheTask
<1>3. run.task \in {"cnnouns", "nigi"}
  BY <1>2, TasksThatWait DEF TheTask
<1>4. PICK governor \in Governors : SystemOf(governor)
  BY <1>2, SystemReady DEF DeploymentInv
<1>5. Assembled(chain, made, "NounsDAOProxyV2")
  BY <1>3, <1>4 DEF SystemOf
<1>6. /\ ArtOf(made["NounsDescriptorV2"]) = made["NounsArt"]
      /\ chain[e].args.governor = made["NounsDAOProxyV2"]
  BY <1>5 DEF Assembled, ArtOf, GovernorFor
<1>7. /\ TheExecutor = e
      /\ chain[made["NounsAuctionHouseProxy"]].args.nouns = made["NounsToken"]
      /\ chain[made["NounsToken"]].args.minter = made["NounsAuctionHouseProxy"]
      /\ chain[made["NounsToken"]].args.descriptor = made["NounsDescriptorV2"]
  BY <1>4, SystemFacts DEF DeploymentInv, Deployed
<1>8. MinterOf(made["NounsToken"]) \in {made["NounsAuctionHouseProxy"], Deployer}
  BY <1>7 DEF MinterOf
<1>9. ASSUME NEW names, names \subseteq Ownable, HandsOver(Configuration, names)
      PROVE  names \subseteq verifyOwnership(made)
  <2> SUFFICES ASSUME NEW name \in names
               PROVE  ownedBy[made[name]] = e
    BY <1>9 DEF verifyOwnership
  <2>1. PICK i \in 1 .. Len(Configuration) :
          Configuration[i].do = "own" /\ Configuration[i].what = name
    BY <1>9 DEF HandsOver
  <2>2. i < run.step
    BY <1>1 DEF DeploymentInv, StepsInv
  <2>3. StepDone(i)
    BY <2>2 DEF DeploymentInv, StepsInv
  <2> QED  BY <1>7, <2>1, <2>3 DEF StepDone, StepLeft
<1>10. ASSUME run.task = "cnnouns"
       PROVE  Ownable \ verifyOwnership(made) \subseteq {"NounsAuctionHouseProxy"}
  <2>1. Ownable \ {"NounsAuctionHouseProxy"} \subseteq verifyOwnership(made)
    BY <1>1, <1>9, <1>10 DEF Configured
  <2> QED  BY <2>1
<1> QED  BY <1>6, <1>7, <1>8, <1>10 DEF VerifiedWhenDone, verifyAddresses

\* The invariant says what HandedOverIsWired does.
LEMMA HandedIsWired ==
  ASSUME DeploymentInv
  PROVE  HandedOverIsWired
<1>1. ASSUME NEW a \in DOMAIN ownedBy, ownedBy[a] > 0
      PROVE  LET executor == ownedBy[a]
                 governor == chain[executor].args.governor
                 token == TokenOf(executor)
                 house == HouseOf(token)
             IN /\ NameAt(governor) \in Governors /\ chain[governor].args.timelock = executor
                /\ NameAt(token) = "NounsToken"
                /\ NameAt(house) = "NounsAuctionHouseProxy" /\ chain[house].args.nouns = token
                /\ Works(chain[token].args.descriptor)
                /\ a \in {token, house, chain[token].args.descriptor, chain[house].args.proxyAdmin}
  <2>1. Wired(chain, ownedBy[a]) /\ Belongs(chain, a, ownedBy[a])
    BY <1>1 DEF DeploymentInv, HandedInv
  <2>2. /\ TokenOf(ownedBy[a]) = TokenFor(chain, ownedBy[a])
        /\ HouseOf(TokenFor(chain, ownedBy[a])) = HouseFor(chain, ownedBy[a])
    BY DEF TokenOf, TokenFor, GovernorFor, HouseOf, HouseFor
  <2> QED
    BY <2>1, <2>2, WorksIsFitting
       DEF Wired, Belongs, Named, NameAt, ChainAddresses, GovernorFor, DescriptorFor, AdminFor
<1>2. phase = "done" /\ TheTask.waits /\ Has("NounsAuctionHouseProxy") => VerifiedWhenDone
  BY VerifiedOnceDone
<1> QED  BY <1>1, <1>2 DEF HandedOverIsWired

\* What the tasks hand to an executor is one system with it: governor, token, house,
\* descriptor and art point at each other, and the verifying tasks find it so, for any tasks,
\* flags, networks and any transactions of others in between.
THEOREM HandedOverIsAlwaysWired == DeploymentSpec => []HandedOverIsWired
<1>1. DeploymentInv => HandedOverIsWired
  BY HandedIsWired
<1> QED  BY <1>1, DeploymentInvariant, PTL

\* A task stops at an address that moved, or at art that refuses, only if other transactions
\* came in between or were pending when it read its nonce; otherwise only at what it was given
\* or cannot do, such as the auction of cnnouns, told to start one: what it counted of the art
\* is not enough to draw.  This holds for every order of runs, flags and networks.
THEOREM FailsOnlyEverWhenDisturbed == DeploymentSpec => []FailsOnlyWhenDisturbed
<1>1. DeploymentInv => FailsOnlyWhenDisturbed
  BY DEF DeploymentInv
<1> QED  BY <1>1, DeploymentInvariant, PTL

\* A house that was handed over has an auction, on art of which every part the seeder picks
\* from was counted, or a token the deployer minted from, although most tasks hand over without
\* knowing whether the unpausing went through.
THEOREM AuctionHandedOverAlwaysRuns == DeploymentSpec => []AuctionHandedOverRuns
<1>1. DeploymentInv => AuctionHandedOverRuns
  BY RunsSaid DEF DeploymentInv
<1> QED  BY <1>1, DeploymentInvariant, PTL

==============================================================================
