------------------------ MODULE MCValidationPipeline ------------------------
EXTENDS ValidationPipeline

MCLayouts == {[n |-> 4, span |-> <<2, 4>>, pads |-> {}], [n |-> 4, span |-> <<0, 3>>, pads |-> {<<3, 4>>}],
              [n |-> 4, span |-> <<1, 3>>, pads |-> {<<0, 1>>, <<3, 4>>}],
              [n |-> 4, span |-> <<2, 2>>, pads |-> {}], [n |-> 4, span |-> <<1, 4>>, pads |-> {<<2, 3>>}],
              [n |-> 4, span |-> <<2, 5>>, pads |-> {}]}
MCSpans == {<<1, 3>>, <<2, 5>>, <<3, 2>>, <<0, 1>>, <<2, 3>>}
MCProtocols == {[mode |-> "strict_on_policy", max_lag |-> 0, correction |-> FALSE],
                [mode |-> "bounded_off_policy", max_lag |-> 1, correction |-> TRUE],
                [mode |-> "bounded_off_policy", max_lag |-> 2, correction |-> FALSE]}
=============================================================================
