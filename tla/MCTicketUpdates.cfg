\* Two agents; four updates reach every status and resolve a reopened ticket again.
SPECIFICATION Spec
CONSTANTS
    Agents = {g1, g2}
    Details = {d1, d2}
    None = None
    MaxVersion = 5
SYMMETRY Symmetry
INVARIANT NoticesTellTicket
PROPERTY NoLostUpdate
CHECK_DEADLOCK FALSE
