--------------------------- MODULE MCPeripherals ---------------------------
(* Components with three, two and one periodic updates (an energy meter, an *)
(* ADC, a thermometer), the light, which has none, and a misspelt entry;    *)
(* configurations that grow, shrink and overflow the table.                 *)
EXTENDS Peripherals

CONSTANTS adc, meter, dht, light, typo

MCOrder == <<adc, meter, dht, light>>
MCUpdates == [c \in {adc, meter, dht, light} |->
                 CASE c = adc -> 2 [] c = meter -> 3 [] c = dht -> 1 [] OTHER -> 0]
MCTypos == {typo}
MCPayloads == {{adc, meter, light}, {adc, typo}, {adc, meter, dht}, {}}
MCRetained == {{adc, meter, light}}
=============================================================================
