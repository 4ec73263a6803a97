------------------------ MODULE ProductOptionEntity ------------------------
(***************************************************************************)
(* The stock columns of a product option and the entity's operations on    *)
(* them (src/src/product/domain/entities/product-option.entity.ts).  An    *)
(* operation first assigns and then calls validateStock, which throws; the *)
(* transaction around it then rolls back.  So each operation is the option *)
(* it would write, and ValidStock says whether it is written.              *)
(***************************************************************************)
EXTENDS Integers

Option == [stock : Int, reserved : Int]

\* Mutant of ValidStock: reservedStock is not compared with stock.
NoNegativeStock(opt) == 0 <= opt.reserved /\ 0 <= opt.stock

\* validateStock
ValidStock(opt) == 0 <= opt.reserved /\ opt.reserved <= opt.stock

\* reserveStock
ReserveStock(opt, q) == [stock |-> opt.stock, reserved |-> opt.reserved + q]

\* releaseReservedStock
ReleaseReservedStock(opt, q) ==
  [stock |-> opt.stock, reserved |-> opt.reserved - q]

\* adjustStock, as updateProductOptionStock calls it
AdjustStock(opt, change) ==
  [stock |-> opt.stock + change, reserved |-> opt.reserved]

\* decreaseStock: the reservation becomes a sale
DecreaseStock(opt, q) ==
  [stock |-> opt.stock - q, reserved |-> opt.reserved - q]

\* Mutant of RestoreStock: the reservation is released instead.
RestoreStockOnly(opt, q) == [opt EXCEPT !.stock = @ + q]

\* restoreStock: the sale becomes a reservation again
RestoreStock(opt, q) ==
  [stock |-> opt.stock + q, reserved |-> opt.reserved + q]
=============================================================================
