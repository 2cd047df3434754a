-------------------------------- MODULE MCPort --------------------------------
(* The parts of the AI Port that the pictures, the messages and the settings go through, and     *)
(* that share no state with the tracks and pulls of the other runs, nor with one another; a      *)
(* behaviour is one of one of them, `focus`.                                                     *)
EXTENDS Adoption, Instances, MCDelivery, LineEvents, FrameExchange, TLC

CONSTANTS t1, w1, w2, i1, i2, p1, p2, k1, k2

VARIABLE focus

MCBody == {[hosts |-> "good", token |-> t1], [hosts |-> "good", token |-> None]}
MCEnds == k1 :> <<<<1, -9>>, <<1, 9>>>> @@ k2 :> <<<<0, 2>>, <<9, 2>>>>
MCPlace == {<<0, 1>>, <<1, 1>>, <<3, 3>>}
MCPictures == <<2, 1>>

portVars == <<focus, adoptVars, instVars, deliveryVars, lineVars, exchangeVars>>

Foci == {"adoption", "instances", "delivery", "lines", "frames"}

PortInit ==
  /\ focus \in Foci
  /\ AdoptInit /\ InstInit /\ DeliveryInit /\ LineInit /\ ExchangeInit
  /\ streaming = Source
  /\ focus # "lines" => center = <<0, 1>>
  /\ focus # "frames" => every = 1

\* A step of part; nothing else changes.
On(part) ==
  /\ focus = part /\ UNCHANGED focus
  /\ IF part = "adoption" THEN TRUE ELSE UNCHANGED adoptVars
  /\ IF part = "instances" THEN TRUE ELSE UNCHANGED instVars
  /\ IF part = "delivery" THEN TRUE ELSE UNCHANGED deliveryVars
  /\ IF part = "lines" THEN TRUE ELSE UNCHANGED lineVars
  /\ IF part = "frames" THEN TRUE ELSE UNCHANGED exchangeVars

PortNext ==
  \/ On("adoption") /\ AdoptNext
  \/ On("instances") /\ InstNext
  \/ On("delivery") /\ DeliveryNext
  \/ On("lines") /\ LineNext
  \/ On("frames") /\ ExchangeNext

PortSpec == PortInit /\ [][PortNext]_portVars

PortTypeOK == CASE focus = "adoption" -> AdoptTypeOK
                [] focus = "instances" -> InstTypeOK
                [] focus = "delivery" -> DeliveryTypeOK
                [] focus = "lines" -> LineTypeOK
                [] focus = "frames" -> ExchangeTypeOK
===============================================================================
