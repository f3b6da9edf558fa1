----------------------------- MODULE FlashLayout ------------------------------
(***************************************************************************)
(* Where the file system lies in the flash of the microcontroller, and     *)
(* what it erases (spiffs_integration.c, spiffs_config.h).  The size of a  *)
(* page of the flash is asked of the driver when the board starts; `page`  *)
(* stands for it.                                                          *)
(***************************************************************************)
EXTENDS Integers

(* MCU_Flash_GetPageSize, on the EFM32 microcontrollers.                   *)
PageSizes == {512, 1024, 2048, 4096}

FlashSize == 1048576

LOG_PAGE_SIZE == 256
SPIFFS_FLASH_ADDR == 1032192
SPIFFS_SIZE == 16384

(* cfg; a block of SPIFFS is a page of the flash.                          *)
my_spiffs_mount(page) ==
  [phys_size |-> SPIFFS_SIZE, phys_addr |-> SPIFFS_FLASH_ADDR,
   phys_erase_block |-> page, log_block_size |-> page,
   log_page_size |-> LOG_PAGE_SIZE]

(* The driver erases n whole pages, from the one addr is in.               *)
MCU_Flash_Erase(page, addr, n) ==
  {a \in Nat : /\ a < FlashSize
               /\ addr \div page <= a \div page /\ a \div page < addr \div page + n}

my_spiffs_erase(page, addr, size) == MCU_Flash_Erase(page, addr, size \div page)

my_spiffs_erase_area(page) == my_spiffs_erase(page, SPIFFS_FLASH_ADDR, SPIFFS_SIZE)

(* What the indices of SPIFFS, all u16_t, can hold.                        *)
U16_MAX == 65535

SPIFFS_OBJ_NAME_LEN == 32
SPIFFS_OBJ_META_LEN == 0
SPIFFS_COPY_BUFFER_STACK == 64

-----------------------------------------------------------------------------

Area == {a \in Nat : SPIFFS_FLASH_ADDR <= a /\ a < FlashSize}

Blocks(page) == {b \in Nat : b < SPIFFS_SIZE \div page}

Block(page, b) ==
  {a \in Nat : /\ SPIFFS_FLASH_ADDR + b * page <= a
               /\ a < SPIFFS_FLASH_ADDR + (b + 1) * page}
=============================================================================
